---- MODULE Spec2Model ----
(***************************************************************************)
(* A model of domish (src/src/ts/server.ts): the DOM-like node tree and    *)
(* its mutation methods, the attribute parser, the RE_TAG tokenizer and    *)
(* the tree builder of parse().                                            *)
(***************************************************************************)
EXTENDS Integers, Sequences, FiniteSets, TLC

(***************************************************************************)
(* Bounds of the model.                                                    *)
(***************************************************************************)
\* Nodes of the mutation pool: node 1 is a DocumentFragment, node 2 a
\* TemplateElement, every further node an Element.
NumNodes == 3
\* The number of mutation calls made on the pool.
MaxCalls == 3
\* The longest attribute text enumerated over AttrAlphabet.
MaxAttrLen == 4
\* The longest document text enumerated over TagAlphabet for parse.
MaxTextLen == 4
\* The longest text enumerated over TagAlphabet for the first of two
\* generators.
MaxTokLen == 3
\* The longest text enumerated over EntityAlphabet for expandEntities.
MaxEntityLen == 5

(***************************************************************************)
(* Program constants.                                                      *)
(***************************************************************************)
ELEMENT_NODE == 1
TEXT_NODE == 3
COMMENT_NODE == 8
DOCUMENT_NODE == 9
DOCUMENT_FRAGMENT_NODE == 11

\* JavaScript's null.
NULL == 0

VARIABLES
    nodeType,    \* Node.nodeType of every node
    content,     \* TemplateElement.content (NULL for every other node)
    childNodes,  \* Node.childNodes: node -> sequence of nodes
    parentNode,  \* Node.parentNode: node -> node or NULL
    pool,        \* the nodes a client holds and passes to the mutation methods
    budget,      \* the number of mutation calls the client still makes
    last,        \* the last call made: method, receiver, arguments, outcome
    nodeName,    \* Node.nodeName, a string
    data,        \* Node.data, a string
    attributeMap, \* Element._attributes: node -> entries in insertion order
    paText,      \* the argument of the parseAttributes call under test
    paResult,    \* its outcome: the mapping returned, or the error raised
    reLastIndex, \* RE_TAG.lastIndex, the one scan cursor of the module
    gen,         \* the iterMarkers generators alive, in order of creation
    taken,       \* the markers a consumer has taken from each generator
    pStatus,     \* parse: "idle", "running", "returned" or "RangeError"
    stack,       \* parse: the stack of open containers
    current,     \* parse: the node new children are appended to
    marker,      \* parse: the marker the loop body handled last
    eeText,      \* the argument of the expandEntities call under test
    eeResult,    \* the string it returned
    markup,      \* the markup text M a client parses and serializes
    serial,      \* the strings toXML returned for the documents parsed so far
    html,        \* the string toHTML returned for the document of markup
    qThis,       \* the node querySelectorAll was called on
    qText,       \* the query it was given
    qResult,     \* the array it returned
    twRoot,      \* TreeWalker.root
    twCurrent,   \* TreeWalker.currentNode
    twFilter,    \* TreeWalker.nodeFilter
    twReturned,  \* what the calls of nextNode have returned, in order
    twStatus,    \* "ready", or "hung" once a call of nextNode never returns
    ownerElement,   \* AttributeNode.ownerElement, per attribute node
    attrName,       \* AttributeNode.name; <<>> for a node not yet constructed
    attrValue,      \* AttributeNode._value: <<>> for undefined, or <<string>>
    attributeNodes, \* Element._attributes: the entries [name, node] in
                    \* insertion order, per element
    attrCall,       \* the last call on attribute nodes and how it ended
    eventListeners, \* Node._eventListeners: the entries [type, set] in
                    \* insertion order, per node
    eventSets,      \* the Set objects: whether constructed, and the members
    cloneSource,    \* the node cloneNode(true) was called on
    cloneResult     \* the node it returned

treeVars == <<nodeType, content, childNodes, parentNode, pool, budget, last>>
infoVars == <<nodeName, data, attributeMap>>
attrVars == <<paText, paResult>>
tokVars == <<reLastIndex, gen, taken>>
parseVars == <<pStatus, stack, current, marker>>
entityVars == <<eeText, eeResult>>
roundVars == <<markup, serial, html>>
queryVars == <<qThis, qText, qResult>>
walkVars == <<twRoot, twCurrent, twFilter, twReturned, twStatus>>
attrNodeVars == <<ownerElement, attrName, attrValue, attributeNodes, attrCall>>
cloneVars == <<eventListeners, eventSets, cloneSource, cloneResult>>
domVars == <<queryVars, walkVars, attrNodeVars, cloneVars>>
extVars == <<entityVars, roundVars, domVars>>
vars == <<treeVars, infoVars, attrVars, tokVars, parseVars, extVars>>

(***************************************************************************)
(* Arrays.                                                                 *)
(***************************************************************************)
Range(seq) == {seq[i] : i \in 1..Len(seq)}

\* Array.prototype.indexOf, 1-based; 0 stands for JavaScript's -1.
IndexOf(seq, x) ==
    IF x \in Range(seq)
    THEN CHOOSE i \in 1..Len(seq) : seq[i] = x /\ \A j \in 1..(i - 1) : seq[j] # x
    ELSE 0

Count(seq, x) == Cardinality({i \in 1..Len(seq) : seq[i] = x})

\* splice(i, 1) at the 1-based index i.
RemoveAt(seq, i) == SubSeq(seq, 1, i - 1) \o SubSeq(seq, i + 1, Len(seq))

\* splice(i, 0, x) where i is the 0-based JavaScript index: a start beyond
\* the length is clamped to the length.
SpliceIn(seq, i, x) ==
    LET k == IF i > Len(seq) THEN Len(seq) ELSE i
    IN  SubSeq(seq, 1, k) \o <<x>> \o SubSeq(seq, k + 1, Len(seq))

\* array[i] = x at the 1-based index i <= Len + 1: writing one past the end
\* extends the array.
AssignAt(seq, i, x) ==
    IF i <= Len(seq) THEN [seq EXCEPT ![i] = x] ELSE Append(seq, x)

(***************************************************************************)
(* The node tree.  A tree state s is a record: s.c is childNodes, s.p is   *)
(* parentNode and s.err is "ok" or the error the call in progress raised.  *)
(***************************************************************************)
\* The pool has NumNodes nodes, or one Element more for the longer runs.
ExtraElement == NumNodes + 1
\* The DocumentFragment that the TemplateElement's constructor creates.
TemplateContent == NumNodes + 2
AllNodes == 1..(NumNodes + 2)

\* A call nests at most once per DocumentFragment that is a child of a
\* DocumentFragment; deeper nesting means the recursion never ends and the
\* engine raises RangeError (call stack exhausted).
StackDepth == NumNodes + 3

IsFragment(n) == nodeType[n] = DOCUMENT_FRAGMENT_NODE

CurrentTree == [c |-> childNodes, p |-> parentNode, err |-> "ok"]

\* removeChild that clears the parent link but leaves the array alone.
RemoveChildKeepsEntry(s, this, child) ==
    IF IndexOf(s.c[this], child) > 0 THEN [s EXCEPT !.p[child] = NULL] ELSE s

\* Node.removeChild
RemoveChild(s, this, child) ==
    LET i == IndexOf(s.c[this], child)
    IN  IF i > 0
        THEN [s EXCEPT !.c[this] = RemoveAt(@, i), !.p[child] = NULL]
        ELSE s

\* Node._detach
Detach(s, this) ==
    IF s.p[this] # NULL THEN RemoveChild(s, s.p[this], this) ELSE s

RECURSIVE NodeAppendChild(_, _, _, _)
RECURSIVE AppendEach(_, _, _, _)

\* The loop `for (const n of children) this.appendChild(n)` of
\* Node.appendChild; an exception leaves the loop.
AppendEach(s, this, children, depth) ==
    IF children = <<>> \/ s.err # "ok"
    THEN s
    ELSE AppendEach(NodeAppendChild(s, this, Head(children), depth),
                    this, Tail(children), depth)

\* appendChild that does not detach the node from its current parent.
NodeAppendChildNoDetach(s, this, node, depth) ==
    IF depth > StackDepth
    THEN [s EXCEPT !.err = "RangeError"]
    ELSE IF IsFragment(node)
    THEN AppendEach(s, this, s.c[node], depth + 1)
    ELSE [s EXCEPT !.c[this] = Append(@, node), !.p[node] = this]

\* Node.appendChild
NodeAppendChild(s, this, node, depth) ==
    IF depth > StackDepth
    THEN [s EXCEPT !.err = "RangeError"]
    ELSE IF IsFragment(node)
    THEN AppendEach(s, this, s.c[node], depth + 1)
    ELSE LET s1 == IF s.p[node] # NULL
                   THEN [RemoveChild(s, s.p[node], node) EXCEPT !.p[node] = NULL]
                   ELSE s
         IN  [s1 EXCEPT !.c[this] = Append(@, node), !.p[node] = this]

\* TemplateElement.appendChild, and the dispatch of a call x.appendChild(n)
\* on the class of x.
AppendChild(s, this, node, depth) ==
    IF content[this] # NULL
    THEN NodeAppendChild(s, content[this], node, depth)
    ELSE NodeAppendChild(s, this, node, depth)

\* Node.replaceChild
ReplaceChild(s, this, newChild, oldChild) ==
    LET i == IndexOf(s.c[this], oldChild)
    IN  IF i > 0
        THEN LET s1 == [s EXCEPT !.p[oldChild] = NULL]
                 s2 == Detach(s1, newChild)
             IN  [s2 EXCEPT !.p[newChild] = this,
                            !.c[this] = AssignAt(@, i, newChild)]
        ELSE s

RECURSIVE InsertBefore(_, _, _, _, _)
RECURSIVE InsertEach(_, _, _, _, _)

\* The loop `for (const child of children) this.insertBefore(child,
\* referenceNode)` of Node.insertBefore.
InsertEach(s, this, children, referenceNode, depth) ==
    IF children = <<>> \/ s.err # "ok"
    THEN s
    ELSE InsertEach(InsertBefore(s, this, Head(children), referenceNode, depth),
                    this, Tail(children), referenceNode, depth)

\* insertBefore that detaches the new node before it looks for the reference.
InsertBeforeDetachFirst(s, this, newNode, referenceNode, depth) ==
    LET s0 == IF IsFragment(newNode) THEN s ELSE Detach(s, newNode)
        i == IndexOf(s0.c[this], referenceNode)
    IN  IF referenceNode = NULL
        THEN AppendChild(s, this, newNode, depth + 1)
        ELSE IF i = 0
        THEN [s0 EXCEPT !.err = "NotFoundError"]
        ELSE IF IsFragment(newNode)
        THEN InsertEach(s0, this, s0.c[newNode], referenceNode, depth + 1)
        ELSE [s0 EXCEPT !.c[this] = SpliceIn(@, i - 1, newNode),
                        !.p[newNode] = this]

\* Node.insertBefore
InsertBefore(s, this, newNode, referenceNode, depth) ==
    IF depth > StackDepth
    THEN [s EXCEPT !.err = "RangeError"]
    ELSE IF referenceNode = NULL
    THEN AppendChild(s, this, newNode, depth + 1)
    ELSE LET i == IndexOf(s.c[this], referenceNode)
         IN  IF i = 0
             THEN [s EXCEPT !.err = "NotFoundError"]
             ELSE IF IsFragment(newNode)
             THEN InsertEach(s, this, s.c[newNode], referenceNode, depth + 1)
             ELSE LET s1 == IF s.p[newNode] # NULL
                            THEN RemoveChild(s, s.p[newNode], newNode)
                            ELSE s
                  IN  [s1 EXCEPT !.c[this] = SpliceIn(@, i - 1, newNode),
                                 !.p[newNode] = this]

(***************************************************************************)
(* Strings.  A string is a sequence of one-character strings; indices are  *)
(* JavaScript's (0-based) and -1 is "not found".                           *)
(***************************************************************************)
\* The characters that \s and String.prototype.trim treat as white space.
WhiteSpace == {" ", "\t", "\n", "\r"}

Min(a, b) == IF a < b THEN a ELSE b
Max(a, b) == IF a > b THEN a ELSE b

\* const v = value; Body(v): the value is computed once.
Bind(value, Body(_)) == CHOOSE y \in {Body(v) : v \in {value}} : TRUE

\* text[i]
CharAt(text, i) == text[i + 1]

\* text.substring(a, b): both ends are clamped to [0, length] and swapped
\* when a > b.
Substring(text, a, b) ==
    LET ca == Max(0, Min(a, Len(text)))
        cb == Max(0, Min(b, Len(text)))
    IN  SubSeq(text, Min(ca, cb) + 1, Max(ca, cb))

\* text.substring(a)
SubstringFrom(text, a) == Substring(text, a, Len(text))

\* text.indexOf(ch, from) for a one-character ch.
IndexOfChar(text, ch, from) ==
    LET hits == {i \in Max(0, from)..(Len(text) - 1) : CharAt(text, i) = ch}
    IN  IF hits = {} THEN -1 ELSE CHOOSE i \in hits : \A j \in hits : i <= j

\* The index of the first character of text, at or after from, that is in
\* the set chars.
IndexOfAny(text, chars, from) ==
    LET hits == {i \in Max(0, from)..(Len(text) - 1) : CharAt(text, i) \in chars}
    IN  IF hits = {} THEN -1 ELSE CHOOSE i \in hits : \A j \in hits : i <= j

\* text.trim()
Trim(text) ==
    LET keep == {i \in 1..Len(text) : text[i] \notin WhiteSpace}
    IN  IF keep = {}
        THEN <<>>
        ELSE SubSeq(text, CHOOSE i \in keep : \A j \in keep : i <= j,
                          CHOOSE i \in keep : \A j \in keep : i >= j)

\* All strings over alphabet of length at most n.
RECURSIVE StringsUpTo(_, _)
StringsUpTo(alphabet, n) ==
    IF n = 0
    THEN {<<>>}
    ELSE LET shorter == StringsUpTo(alphabet, n - 1)
         IN  shorter \cup {Append(t, ch) : t \in shorter, ch \in alphabet}

(***************************************************************************)
(* parseAttributes.  A mapping is the sequence of its entries in the       *)
(* object's property order; an entry holds null or a string value.         *)
(***************************************************************************)
NullEntry(name) == [name |-> name, null |-> TRUE, value |-> <<>>]
ValueEntry(name, value) == [name |-> name, null |-> FALSE, value |-> value]

\* attributes[name] = ...: an existing property keeps its place.
SetProperty(attributes, entry) ==
    IF \E i \in 1..Len(attributes) : attributes[i].name = entry.name
    THEN [i \in 1..Len(attributes) |->
            IF attributes[i].name = entry.name THEN entry ELSE attributes[i]]
    ELSE Append(attributes, entry)

\* RE_ATTR_SEP = /[=\s]/
AttrSep == {"="} \cup WhiteSpace

Outcome(status, attributes) == [status |-> status, attributes |-> attributes]

RECURSIVE ParseAttributes(_, _)

\* The recursive calls of parseAttributes on the remainder.  The function's
\* control flow depends on its text alone, so a call that passes on the very
\* text it received never returns: the recursion exhausts the call stack
\* and the engine raises RangeError.
ParseRemainder(text, remainder, attributes) ==
    Bind(<<remainder, attributes>>, LAMBDA call :
        IF call[1] = text
        THEN Outcome("RangeError", call[2])
        ELSE ParseAttributes(call[1], call[2]))

\* parseAttributes
ParseAttributes(text, attributes) ==
    IF Len(text) = 0
    THEN Outcome("ok", attributes)
    ELSE
    LET m == IndexOfAny(text, AttrSep, 0)
    IN
    IF m = -1
    THEN LET spaceIndex == IndexOfChar(text, " ", 0)
         IN  IF spaceIndex = -1
             THEN LET name == Trim(text)
                  IN  Outcome("ok", IF name # <<>>
                                    THEN SetProperty(attributes, NullEntry(name))
                                    ELSE attributes)
             ELSE LET name == Trim(Substring(text, 0, spaceIndex))
                      attrs1 == IF name # <<>>
                                THEN SetProperty(attributes, NullEntry(name))
                                ELSE attributes
                  IN  ParseRemainder(text, Trim(SubstringFrom(text, spaceIndex + 1)),
                                     attrs1)
    ELSE IF CharAt(text, m) = "="
    THEN LET name == Trim(Substring(text, 0, m))
         IN  IF m + 1 >= Len(text)
             THEN Outcome("ok", SetProperty(attributes, ValueEntry(name, <<>>)))
             ELSE
             LET chr == CharAt(text, m + 1)
                 end == IF chr = "'"
                        THEN IndexOfChar(text, "'", m + 2)
                        ELSE IF chr = "\""
                        THEN IndexOfChar(text, "\"", m + 2)
                        ELSE IndexOfChar(text, " ", m)
                 value == IF end = -1
                          THEN Trim(SubstringFrom(text, m + 1))
                          ELSE Substring(text, m + 1, end + 1)
                 attrs1 == IF name = <<>>
                           THEN attributes
                           ELSE IF value # <<>> /\ value[1] \in {"'", "\""}
                           THEN SetProperty(attributes,
                                    ValueEntry(name, Substring(value, 1, Len(value) - 1)))
                           ELSE SetProperty(attributes, ValueEntry(name, Trim(value)))
             IN  ParseRemainder(text, Trim(SubstringFrom(text, end + 1)), attrs1)
    ELSE LET name == Trim(Substring(text, 0, m))
             attrs1 == IF name # <<>>
                       THEN SetProperty(attributes, NullEntry(name))
                       ELSE attributes
         IN  ParseRemainder(text, Trim(SubstringFrom(text, m + 1)), attrs1)

\* The characters of the enumerated attribute texts.
AttrAlphabet == {"a", "=", " ", "\t", "\"", "'"}

\* 'a="1" b c="x y" d=', the example of the specification.
AttrExample ==
    <<"a", "=", "\"", "1", "\"", " ", "b", " ", "c", "=", "\"", "x", " ", "y",
      "\"", " ", "d", "=">>

AttrTexts == StringsUpTo(AttrAlphabet, MaxAttrLen) \cup {AttrExample}

(***************************************************************************)
(* Entities: iexpandEntities joined by expandEntities.                     *)
(***************************************************************************)
Digits == {"0", "1", "2", "3", "4", "5", "6", "7", "8", "9"}
LowerLetters ==
    {"a", "b", "c", "d", "e", "f", "g", "h", "i", "j", "k", "l", "m",
     "n", "o", "p", "q", "r", "s", "t", "u", "v", "w", "x", "y", "z"}
UpperLetters ==
    {"A", "B", "C", "D", "E", "F", "G", "H", "I", "J", "K", "L", "M",
     "N", "O", "P", "Q", "R", "S", "T", "U", "V", "W", "X", "Y", "Z"}
Letters == LowerLetters \cup UpperLetters

LowerCaseOrder ==
    <<"a", "b", "c", "d", "e", "f", "g", "h", "i", "j", "k", "l", "m",
      "n", "o", "p", "q", "r", "s", "t", "u", "v", "w", "x", "y", "z">>
UpperCaseOrder ==
    <<"A", "B", "C", "D", "E", "F", "G", "H", "I", "J", "K", "L", "M",
      "N", "O", "P", "Q", "R", "S", "T", "U", "V", "W", "X", "Y", "Z">>

\* ch.toLowerCase()
ToLowerCase(ch) ==
    IF ch \in UpperLetters
    THEN LowerCaseOrder[CHOOSE k \in 1..26 : UpperCaseOrder[k] = ch]
    ELSE ch

\* The index after the longest run of characters of chars that starts at i.
RunEnd(text, i, chars) ==
    LET stops == {k \in i..Len(text) : k = Len(text) \/ CharAt(text, k) \notin chars}
    IN  CHOOSE k \in stops : \A j \in stops : k <= j

\* ENTITIES
ENTITIES ==
    (<<"a", "m", "p">> :> <<"&">>) @@ (<<"l", "t">> :> <<"<">>) @@
    (<<"g", "t">> :> <<">">>) @@ (<<"q", "u", "o", "t">> :> <<"\"">>) @@
    (<<"a", "p", "o", "s">> :> <<"'">>)

\* Number(code) for a run of decimal digits.
RECURSIVE NumberOf(_)
NumberOf(code) ==
    IF code = <<>>
    THEN 0
    ELSE LET d == code[Len(code)]
             v == CHOOSE n \in 0..9 : ToString(n) = d
         IN  10 * NumberOf(SubSeq(code, 1, Len(code) - 1)) + v

\* String.fromCodePoint(c), for the code points the checked texts mention;
\* any other code point is a character of its own.
FromCodePoint(c) ==
    CASE c = 34 -> "\"" [] c = 38 -> "&" [] c = 39 -> "'" [] c = 60 -> "<"
      [] c = 62 -> ">" [] c = 32 -> " " [] c = 65 -> "A" [] c = 100 -> "d"
      [] OTHER -> "U+" \o ToString(c)

NoMatch == [found |-> FALSE]

\* RE_ENTITY anchored at i: &#digits; or &letters; (flag i).
EntityAt(text, i) ==
    IF i >= Len(text) \/ CharAt(text, i) # "&"
    THEN NoMatch
    ELSE IF i + 1 < Len(text) /\ CharAt(text, i + 1) = "#"
    THEN LET e == RunEnd(text, i + 2, Digits)
         IN  IF e > i + 2 /\ e < Len(text) /\ CharAt(text, e) = ";"
             THEN [found |-> TRUE, index |-> i, end |-> e + 1, named |-> FALSE,
                   body |-> Substring(text, i + 2, e)]
             ELSE NoMatch
    ELSE LET e == RunEnd(text, i + 1, Letters)
         IN  IF e > i + 1 /\ e < Len(text) /\ CharAt(text, e) = ";"
             THEN [found |-> TRUE, index |-> i, end |-> e + 1, named |-> TRUE,
                   body |-> Substring(text, i + 1, e)]
             ELSE NoMatch

\* RE_ENTITY.exec(text) with lastIndex = from.
EntityExec(text, from) ==
    LET hits == {i \in from..(Len(text) - 1) : EntityAt(text, i).found}
    IN  IF hits = {}
        THEN NoMatch
        ELSE EntityAt(text, CHOOSE i \in hits : \A j \in hits : i <= j)

\* ENTITIES is a plain object: the name "constructor" finds the property it
\* inherits, the function Object, which join("") turns into its source text
\* "function Object() { [native code] }".
INHERITED_NAME == <<"c", "o", "n", "s", "t", "r", "u", "c", "t", "o", "r">>
INHERITED_TEXT ==
    <<"f", "u", "n", "c", "t", "i", "o", "n", " ", "O", "b", "j", "e", "c",
      "t", "(", ")", " ", "{", " ", "[", "n", "a", "t", "i", "v", "e", " ",
      "c", "o", "d", "e", "]", " ", "}">>

\* What one match expands to.
EntityValue(text, match) ==
    LET whole == Substring(text, match.index, match.end)
    IN  IF match.named
        THEN LET name == [k \in 1..Len(match.body) |-> ToLowerCase(match.body[k])]
             IN  IF name \in DOMAIN ENTITIES THEN ENTITIES[name]
                 ELSE IF name = INHERITED_NAME THEN INHERITED_TEXT
                 ELSE whole
        ELSE LET c == NumberOf(match.body)
             IN  IF c > 1114111 THEN whole ELSE <<FromCodePoint(c)>>

\* The loop of iexpandEntities from offset o, joined.
RECURSIVE ExpandFrom(_, _)
ExpandFrom(text, o) ==
    Bind(EntityExec(text, o), LAMBDA match :
        IF match.found
        THEN Substring(text, o, match.index) \o EntityValue(text, match)
                 \o ExpandFrom(text, match.end)
        ELSE IF o < Len(text) THEN SubstringFrom(text, o) ELSE <<>>)

\* expandEntities
ExpandEntities(text) ==
    IF Len(text) < 3 THEN text ELSE ExpandFrom(text, 0)

(***************************************************************************)
(* RE_TAG.  The pattern is assembled from string pieces; the last piece is *)
(* a template literal, in which \d, \w and \- lose their backslash, so    *)
(* the class of the name is [dw_-]: the four characters d, w, _ and -.     *)
(* The pattern as written never closes the group (?<qualname>; it is read  *)
(* here as closing after the name, the only reading under which the        *)
(* tokenizer runs at all.                                                  *)
(***************************************************************************)
NameChars == {"d", "w", "_", "-"}
WordChars == Letters \cup Digits \cup {"_"}

\* text.startsWith(lit, i)
StartsWithAt(text, i, lit) ==
    /\ i + Len(lit) <= Len(text)
    /\ SubSeq(text, i + 1, i + Len(lit)) = lit

\* text.indexOf(lit, from)
IndexOfSeq(text, lit, from) ==
    LET hits == {k \in from..Len(text) : StartsWithAt(text, k, lit)}
    IN  IF hits = {} THEN -1 ELSE CHOOSE k \in hits : \A j \in hits : k <= j

Match(kind, index, end, closing, qualname, attrs) ==
    [found |-> TRUE, kind |-> kind, index |-> index, end |-> end,
     closing |-> closing, qualname |-> qualname, attrs |-> attrs]

\* (?<DOCTYPE>\<\!DOCTYPE\s+(?<doctype>[^\>]+)\>\r?\n)
DoctypeAt(text, i) ==
    LET g == IndexOfChar(text, ">", i + 9)
        end == IF StartsWithAt(text, g + 1, <<"\n">>) THEN g + 2
               ELSE IF StartsWithAt(text, g + 1, <<"\r", "\n">>) THEN g + 3
               ELSE -1
    IN  IF /\ StartsWithAt(text, i, <<"<", "!", "D", "O", "C", "T", "Y", "P", "E">>)
           /\ g >= i + 11
           /\ CharAt(text, i + 9) \in WhiteSpace
           /\ end # -1
        THEN Match("DOCTYPE", i, end, FALSE, <<>>, <<>>)
        ELSE NoMatch

\* (?<COMMENT>\<\!--(?<comment>([\r\n]|.)*?)--\>)
CommentAt(text, i) ==
    LET k == IndexOfSeq(text, <<"-", "-", ">">>, i + 4)
    IN  IF StartsWithAt(text, i, <<"<", "!", "-", "-">>) /\ k # -1
        THEN Match("COMMENT", i, k + 3, FALSE, <<>>, <<>>)
        ELSE NoMatch

\* (?<CDATA><\!\[CDATA\[(?<cdata>([\r\n]|.)*?)\]\]\>)
CDataAt(text, i) ==
    LET k == IndexOfSeq(text, <<"]", "]", ">">>, i + 9)
    IN  IF StartsWithAt(text, i, <<"<", "!", "[", "C", "D", "A", "T", "A", "[">>)
           /\ k # -1
        THEN Match("CDATA", i, k + 3, FALSE, <<>>, <<>>)
        ELSE NoMatch

\* \w+[dw_-]* : word characters, then characters of the name class.
IsNamespace(x) ==
    \E k \in 1..Len(x) :
        /\ \A j \in 1..k : x[j] \in WordChars
        /\ \A j \in (k + 1)..Len(x) : x[j] \in NameChars

\* Where the name starts in a tag whose qualified name starts at j: after
\* the namespace and its colon, if there is one.
NameStart(text, j) ==
    Bind(RunEnd(text, j, WordChars \cup {"-"}), LAMBDA colon :
        IF /\ colon > j
           /\ colon < Len(text)
           /\ CharAt(text, colon) = ":"
           /\ IsNamespace(Substring(text, j, colon))
        THEN colon + 1
        ELSE j)

\* (?<attrs>\s+[^\>]*)?\s*/?\> after a name that ends at q.
TagRest(text, i, closing, j, q) ==
    IF q >= Len(text)
    THEN NoMatch
    ELSE IF CharAt(text, q) \in WhiteSpace
    THEN Bind(IndexOfChar(text, ">", q), LAMBDA g :
             IF g = -1
             THEN NoMatch
             ELSE Match("TAG", i, g + 1, closing, Substring(text, j, q),
                        Substring(text, q, g)))
    ELSE IF CharAt(text, q) = ">"
    THEN Match("TAG", i, q + 1, closing, Substring(text, j, q), <<>>)
    ELSE IF StartsWithAt(text, q, <<"/", ">">>)
    THEN Match("TAG", i, q + 2, closing, Substring(text, j, q), <<>>)
    ELSE NoMatch

\* \<(?<closing>/)?(?<qualname>((?<ns>\w+[dw_-]*):)?(?<name>[dw_-]+))
\*   (?<attrs>\s+[^\>]*)?\s*/?\>
TagAt(text, i) ==
    IF i >= Len(text) \/ CharAt(text, i) # "<"
    THEN NoMatch
    ELSE Bind(i + 1 < Len(text) /\ CharAt(text, i + 1) = "/", LAMBDA closing :
         Bind(IF closing THEN i + 2 ELSE i + 1, LAMBDA j :
         Bind(NameStart(text, j), LAMBDA nameStart :
         Bind(RunEnd(text, nameStart, NameChars), LAMBDA q :
             IF q = nameStart
             THEN NoMatch
             ELSE TagRest(text, i, closing, j, q)))))

\* RE_TAG anchored at i: the alternatives in the order of the pattern.
MatchAt(text, i) ==
    IF DoctypeAt(text, i).found THEN DoctypeAt(text, i)
    ELSE IF CommentAt(text, i).found THEN CommentAt(text, i)
    ELSE IF CDataAt(text, i).found THEN CDataAt(text, i)
    ELSE TagAt(text, i)

\* The least element of a non-empty set of numbers.
Least(set) == CHOOSE i \in set : \A j \in set : i <= j

\* RE_TAG.exec(text): the search starts at RE_TAG.lastIndex, which a match
\* moves to its end and a failure resets to 0.
Exec(text, lastIndex) ==
    Bind(IF lastIndex > Len(text)
         THEN {}
         ELSE {i \in lastIndex..(Len(text) - 1) : MatchAt(text, i).found},
         LAMBDA hits :
             IF hits = {}
             THEN [match |-> NoMatch, lastIndex |-> 0]
             ELSE Bind(MatchAt(text, Least(hits)), LAMBDA m :
                      [match |-> m, lastIndex |-> m.end]))

(***************************************************************************)
(* Fragments and markers.  A fragment is a pair of offsets into the text   *)
(* being tokenized; a marker whose name is null has the empty name.        *)
(***************************************************************************)
Fragment(start, end) == [start |-> start, end |-> end]

\* fragment.slice(start, end); end is 0 where the code passes none.
Slice(fragment, start, end) ==
    LET i == IF start >= 0 THEN fragment.start + start ELSE fragment.end + start
        j == IF end > 0 THEN fragment.start + end ELSE fragment.end + end
    IN  Fragment(Min(i, j), Max(i, j))

\* fragment.rawtext
RawText(text, fragment) == Substring(text, fragment.start, fragment.end)

Marker(type, fragment, name, attributes) ==
    [type |-> type, fragment |-> fragment, name |-> name, attributes |-> attributes]

NoMarker == [type |-> "none"]

\* parseAttributes raising in the body of iterMarkers.
Raise == [type |-> "RangeError"]

CDATA_NAME == <<"!", "C", "D", "A", "T", "A">>
DOCTYPE_NAME == <<"!", "D", "O", "C", "T", "Y", "P", "E">>
COMMENT_NAME == <<"!", "C", "O", "M", "M", "E", "N", "T">>

\* What the body of the loop of iterMarkers yields for one match.
MarkersOf(text, match) ==
    LET fragment == Fragment(match.index, match.end)
    IN  CASE match.kind = "CDATA" ->
               <<Marker("Start", Slice(fragment, 0, 9), CDATA_NAME, <<>>),
                 Marker("Content", Slice(fragment, 9, -3), <<>>, <<>>),
                 Marker("End", Slice(fragment, -3, 0), CDATA_NAME, <<>>)>>
          [] match.kind = "DOCTYPE" ->
               <<Marker("Start", Slice(fragment, 0, 10), DOCTYPE_NAME, <<>>),
                 Marker("Content", Slice(fragment, 10, -2), <<>>, <<>>),
                 Marker("End", Slice(fragment, -2, 0), DOCTYPE_NAME, <<>>)>>
          [] match.kind = "COMMENT" ->
               <<Marker("Start", Slice(fragment, 0, 4), COMMENT_NAME, <<>>),
                 Marker("Content", Slice(fragment, 4, -3), <<>>, <<>>),
                 Marker("End", Slice(fragment, -3, 0), COMMENT_NAME, <<>>)>>
          [] OTHER ->
               LET is_self_closing == StartsWithAt(text, match.end - 2, <<"/", ">">>)
                   parsed == IF match.attrs # <<>>
                             THEN ParseAttributes(match.attrs, <<>>)
                             ELSE Outcome("ok", <<>>)
                   type == IF match.closing THEN "End"
                           ELSE IF is_self_closing THEN "Inline"
                           ELSE "Start"
               IN  IF parsed.status = "RangeError"
                   THEN <<Raise>>
                   ELSE <<Marker(type, fragment, match.qualname, parsed.attributes)>>

(***************************************************************************)
(* The generator iterMarkers(text) over Fragment.IterMatches(RE_TAG, text).*)
(* `queue` holds what the current turn of the while loop has still to      *)
(* yield; `exhausted` says the loop is over.                               *)
(***************************************************************************)
NewGenerator(text) ==
    [text |-> text, offset |-> 0, queue |-> <<>>, exhausted |-> text = <<>>,
     status |-> "suspended"]

\* One turn of the while loop of IterMatches: the call of exec and what
\* follows from its result.
Turn(g, lastIndex) ==
    Bind(Exec(g.text, lastIndex), LAMBDA r :
        IF r.match.found
        THEN [gen |-> [g EXCEPT
                  !.queue = (IF g.offset # r.match.index
                             THEN <<Marker("Content",
                                           Fragment(g.offset, r.match.index),
                                           <<>>, <<>>)>>
                             ELSE <<>>) \o MarkersOf(g.text, r.match),
                  !.offset = Max(g.offset + 1, r.match.end)],
              lastIndex |-> r.lastIndex]
        ELSE [gen |-> [g EXCEPT
                  !.queue = IF g.offset < Len(g.text)
                            THEN <<Marker("Content", Fragment(g.offset, Len(g.text)),
                                          <<>>, <<>>)>>
                            ELSE <<>>,
                  !.exhausted = TRUE],
              lastIndex |-> r.lastIndex])

\* generator.next(): the generator runs to its next yield, to its end, or
\* to the error parseAttributes raises in it.
Resume(g, lastIndex) ==
    Bind(IF g.queue = <<>> /\ ~g.exhausted
         THEN Turn(g, lastIndex)
         ELSE [gen |-> g, lastIndex |-> lastIndex],
         LAMBDA r :
             IF r.gen.queue = <<>>
             THEN [gen |-> [r.gen EXCEPT !.status = "done"],
                   lastIndex |-> r.lastIndex, yield |-> NoMarker]
             ELSE IF Head(r.gen.queue).type = "RangeError"
             THEN [gen |-> [r.gen EXCEPT !.status = "RangeError", !.queue = <<>>],
                   lastIndex |-> r.lastIndex, yield |-> NoMarker]
             ELSE [gen |-> [r.gen EXCEPT !.queue = Tail(r.gen.queue)],
                   lastIndex |-> r.lastIndex, yield |-> Head(r.gen.queue)])

(***************************************************************************)
(* parse: the tree builder.                                                *)
(***************************************************************************)
\* The characters of the enumerated document texts.
TagAlphabet == {"<", ">", "/", "d", " ", "x"}

\* "<a><b></a>", the unbalanced example of the specification.
UnbalancedExample == <<"<", "a", ">", "<", "b", ">", "<", "/", "a", ">">>

\* The same shape with names of the class [dw_-]: "<d><w></d>".
UnbalancedTags == <<"<", "d", ">", "<", "w", ">", "<", "/", "d", ">">>

\* "<d w=w>x": the attribute text " w=w" makes parseAttributes raise.
RaisingTag == <<"<", "d", " ", "w", "=", "w", ">", "x">>

\* "<d w='x'/>"
InlineTag == <<"<", "d", " ", "w", "=", "'", "x", "'", "/", ">">>

\* "<d />"
SpacedInlineTag == <<"<", "d", " ", "/", ">">>

\* "<d><!--w--></d>"
CommentInTag ==
    <<"<", "d", ">", "<", "!", "-", "-", "w", "-", "-", ">", "<", "/", "d", ">">>

\* "<d><![CDATA[x]]>w"
CDataInTag ==
    <<"<", "d", ">", "<", "!", "[", "C", "D", "A", "T", "A", "[", "x", "]", "]", ">",
      "w">>

\* "<d><w></w></d></d>x"
ExcessClosers ==
    <<"<", "d", ">", "<", "w", ">", "<", "/", "w", ">", "<", "/", "d", ">",
      "<", "/", "d", ">", "x">>

\* "<d>&lt;</d>"
EntityInTag == <<"<", "d", ">", "&", "l", "t", ";", "<", "/", "d", ">">>

ParseExamples ==
    {UnbalancedExample, UnbalancedTags, RaisingTag, InlineTag, SpacedInlineTag,
     CommentInTag, CDataInTag, ExcessClosers, EntityInTag}

ParseTexts == StringsUpTo(TagAlphabet, MaxTextLen) \cup ParseExamples

TokTexts == StringsUpTo(TagAlphabet, MaxTokLen)

\* The nodes one call of parse can create: at most one per marker, and the
\* Document.
ParseNodes == 1..(Max(MaxTextLen, Len(ExcessClosers)) + 2)

\* stack.push(element); current = element
Push(b, element) == [stack |-> Append(b.stack, element), current |-> element]

\* An End marker that pops whatever the stack holds.
PopUnguarded(b) ==
    LET rest == IF b.stack = <<>> THEN <<>> ELSE SubSeq(b.stack, 1, Len(b.stack) - 1)
    IN  [stack |-> rest,
         current |-> IF rest = <<>> THEN NULL ELSE rest[Len(rest)]]

\* case MarkerType.End
Pop(b) ==
    IF Len(b.stack) > 1
    THEN [stack |-> SubSeq(b.stack, 1, Len(b.stack) - 1),
          current |-> b.stack[Len(b.stack) - 1]]
    ELSE b

Builder == [stack |-> stack, current |-> current]

\* name.startsWith("!")
IsDeclaration(name) == name # <<>> /\ name[1] = "!"

\* switch (name) in createElement
IsTemplateName(name) ==
    name \in {<<"t", "e", "m", "p", "l", "a", "t", "e">>,
              <<"T", "E", "M", "P", "L", "A", "T", "E">>}

\* The node the next constructor call makes.
FreshNode ==
    CHOOSE n \in ParseNodes :
        nodeType[n] = NULL /\ \A k \in 1..(n - 1) : nodeType[k] # NULL

\* element.setAttribute(k, v !== null ? v : "") for every entry of the
\* marker's attributes.
ElementAttributes(entries) ==
    [i \in 1..Len(entries) |->
        ValueEntry(entries[i].name,
                   IF entries[i].null THEN <<>> ELSE entries[i].value)]

\* if (current) current.appendChild(node)
AppendToCurrent(n) ==
    LET s == IF current # NULL
             THEN AppendChild(CurrentTree, current, n, 0)
             ELSE CurrentTree
    IN  /\ childNodes' = s.c
        /\ parentNode' = s.p

\* doc.createTextNode(value) or doc.createComment(value), appended.
AppendCharacterData(type, name, value) ==
    LET n == FreshNode
    IN  /\ nodeType' = [nodeType EXCEPT ![n] = type]
        /\ nodeName' = [nodeName EXCEPT ![n] = name]
        /\ data' = [data EXCEPT ![n] = value]
        /\ AppendToCurrent(n)
        /\ UNCHANGED <<content, attributeMap>>

\* doc.createElement(name), the attributes set, appended.
AppendElement(m) ==
    LET n == FreshNode
    IN  /\ IF IsTemplateName(m.name)
           THEN /\ nodeType' = [nodeType EXCEPT ![n] = ELEMENT_NODE,
                                                ![n + 1] = DOCUMENT_FRAGMENT_NODE]
                /\ content' = [content EXCEPT ![n] = n + 1]
           ELSE /\ nodeType' = [nodeType EXCEPT ![n] = ELEMENT_NODE]
                /\ UNCHANGED content
        /\ nodeName' = [nodeName EXCEPT ![n] = m.name]
        /\ attributeMap' = [attributeMap EXCEPT ![n] = ElementAttributes(m.attributes)]
        /\ AppendToCurrent(n)
        /\ UNCHANGED data

\* One turn of the for loop of parse: the generator is resumed and yields m.
Yielded(type) ==
    /\ pStatus = "running"
    /\ \E r \in {Resume(gen[1], reLastIndex)} :
          /\ r.yield.type = type
          /\ gen' = <<r.gen>>
          /\ reLastIndex' = r.lastIndex
          /\ marker' = r.yield
    /\ UNCHANGED <<pStatus, taken, pool, budget, last, attrVars, extVars>>

\* case MarkerType.Content
ParseContent ==
    /\ Yielded("Content")
    /\ \E text \in {ExpandEntities(RawText(gen[1].text, marker'.fragment))} :
          IF current # NULL /\ Trim(text) # <<>>
          THEN AppendCharacterData(TEXT_NODE, <<"#", "t", "e", "x", "t">>, text)
          ELSE UNCHANGED <<nodeType, content, childNodes, parentNode, infoVars>>
    /\ UNCHANGED <<stack, current>>

\* case MarkerType.Start
ParseStart ==
    /\ Yielded("Start")
    /\ IF IsDeclaration(marker'.name)
       THEN /\ AppendCharacterData(COMMENT_NODE,
                   <<"#", "c", "o", "m", "m", "e", "n", "t">>,
                   RawText(gen[1].text, marker'.fragment))
            /\ UNCHANGED <<stack, current>>
       ELSE /\ AppendElement(marker')
            /\ stack' = Push(Builder, FreshNode).stack
            /\ current' = Push(Builder, FreshNode).current

\* case MarkerType.End
ParseEnd ==
    /\ Yielded("End")
    /\ stack' = Pop(Builder).stack
    /\ current' = Pop(Builder).current
    /\ UNCHANGED <<nodeType, content, childNodes, parentNode, infoVars>>

\* case MarkerType.Inline
ParseInline ==
    /\ Yielded("Inline")
    /\ AppendElement(marker')
    /\ UNCHANGED <<stack, current>>

\* The generator is exhausted: return doc.
ParseReturn ==
    /\ pStatus = "running"
    /\ \E r \in {Resume(gen[1], reLastIndex)} :
          /\ r.gen.status = "done"
          /\ gen' = <<r.gen>>
          /\ reLastIndex' = r.lastIndex
    /\ pStatus' = "returned"
    /\ UNCHANGED <<treeVars, infoVars, attrVars, extVars, taken, stack, current, marker>>

\* parseAttributes raises in the generator: the error leaves parse.
ParseRaise ==
    /\ pStatus = "running"
    /\ \E r \in {Resume(gen[1], reLastIndex)} :
          /\ r.gen.status = "RangeError"
          /\ gen' = <<r.gen>>
          /\ reLastIndex' = r.lastIndex
    /\ pStatus' = "RangeError"
    /\ UNCHANGED <<treeVars, infoVars, attrVars, extVars, taken, stack, current, marker>>

\* The nodes of a call of parse: the new Document alone (its body element is
\* a detached Element that parse never touches).
DocumentTypes == [n \in ParseNodes |-> IF n = 1 THEN DOCUMENT_NODE ELSE NULL]
DocumentNames ==
    [n \in ParseNodes |->
        IF n = 1 THEN <<"#", "d", "o", "c", "u", "m", "e", "n", "t">> ELSE <<>>]
Unset(value) == [n \in ParseNodes |-> value]

NewDocument ==
    /\ nodeType = DocumentTypes
    /\ nodeName = DocumentNames
    /\ data = Unset(<<>>)
    /\ attributeMap = Unset(<<>>)
    /\ content = Unset(NULL)
    /\ childNodes = Unset(<<>>)
    /\ parentNode = Unset(NULL)

\* The body of parse up to its loop: the previous call, if any, has returned
\* or raised, and its document is dropped.
BeginParse(text) ==
    /\ pStatus # "running"
    /\ pStatus' = "running"
    /\ nodeType' = DocumentTypes
    /\ nodeName' = DocumentNames
    /\ data' = Unset(<<>>)
    /\ attributeMap' = Unset(<<>>)
    /\ content' = Unset(NULL)
    /\ childNodes' = Unset(<<>>)
    /\ parentNode' = Unset(NULL)
    /\ stack' = <<1>>
    /\ current' = 1
    /\ gen' = <<NewGenerator(text)>>
    /\ marker' = NoMarker
    /\ UNCHANGED <<reLastIndex, taken, pool, budget, last, attrVars, extVars>>

\* A client calls parse(text).  The text of a call that follows a call that
\* returned is one of the examples; the first call and a call that follows a
\* call that raised take any text.
CallParse(text) ==
    /\ pStatus = "returned" => text \in ParseExamples
    /\ BeginParse(text)

(***************************************************************************)
(* Two generators of iterMarkers consumed by one client.                   *)
(***************************************************************************)
\* generator.next() on generator i.
TokNext(i) ==
    /\ gen[i].status = "suspended"
    /\ \E r \in {Resume(gen[i], reLastIndex)} :
          /\ gen' = [gen EXCEPT ![i] = r.gen]
          /\ reLastIndex' = r.lastIndex
          /\ taken' = IF r.yield.type = "none"
                      THEN taken
                      ELSE [taken EXCEPT ![i] = Append(@, r.yield)]
    /\ UNCHANGED <<treeVars, infoVars, attrVars, extVars, parseVars>>

\* The client drops generator i after taking some of its markers.
TokAbandon(i) ==
    /\ gen[i].status = "suspended"
    /\ taken[i] # <<>>
    /\ gen' = [gen EXCEPT ![i].status = "abandoned"]
    /\ UNCHANGED <<reLastIndex, taken, treeVars, infoVars, attrVars, extVars, parseVars>>

\* What iterMarkers(text) yields to a client that consumes it to its end
\* while nothing else uses RE_TAG, and how it ends.
RECURSIVE Drain(_, _, _)
Drain(g, lastIndex, acc) ==
    Bind(<<Resume(g, lastIndex), acc>>, LAMBDA r :
        IF r[1].gen.status # "suspended"
        THEN [status |-> r[1].gen.status, markers |-> r[2]]
        ELSE Drain(r[1].gen, r[1].lastIndex, Append(r[2], r[1].yield)))

ConsumedAlone(text) == Drain(NewGenerator(text), 0, <<>>)

(***************************************************************************)
(* Serialization: iterXMLLines joined by toXML and toHTML.  The nodes that *)
(* parse creates have no namespace, no namespaced attributes and no inline *)
(* styles.                                                                 *)
(***************************************************************************)
\* tags(...): every name as given, in lower case and in upper case.
HTML_EMPTY ==
    {<<"a", "r", "e", "a">>,
     <<"A", "R", "E", "A">>,
     <<"b", "a", "s", "e">>,
     <<"B", "A", "S", "E">>,
     <<"b", "a", "s", "e", "f", "o", "n", "t">>,
     <<"B", "A", "S", "E", "F", "O", "N", "T">>,
     <<"b", "r">>,
     <<"B", "R">>,
     <<"c", "o", "l">>,
     <<"C", "O", "L">>,
     <<"f", "r", "a", "m", "e">>,
     <<"F", "R", "A", "M", "E">>,
     <<"h", "r">>,
     <<"H", "R">>,
     <<"i", "m", "g">>,
     <<"I", "M", "G">>,
     <<"i", "n", "p", "u", "t">>,
     <<"I", "N", "P", "U", "T">>,
     <<"i", "s", "i", "n", "d", "e", "x">>,
     <<"I", "S", "I", "N", "D", "E", "X">>,
     <<"l", "i", "n", "k">>,
     <<"L", "I", "N", "K">>,
     <<"m", "e", "t", "a">>,
     <<"M", "E", "T", "A">>,
     <<"p", "a", "r", "a", "m">>,
     <<"P", "A", "R", "A", "M">>}

HTML_NOEMPTY ==
    {<<"s", "l", "o", "t">>,
     <<"S", "L", "O", "T">>}

\* "<?xml version='1.0' charset='utf-8' ?>\n"
XML_DECLARATION ==
    <<"<", "?", "x", "m", "l", " ", "v", "e", "r", "s", "i", "o", "n", "=",
      "'", "1", ".", "0", "'", " ", "c", "h", "a", "r", "s", "e", "t", "=",
      "'", "u", "t", "f", "-", "8", "'", " ", "?", ">", "\n">>

STYLE == <<"s", "t", "y", "l", "e">>

\* The concatenation of the strings of a sequence.
RECURSIVE Join(_)
Join(strings) ==
    IF strings = <<>> THEN <<>> ELSE Head(strings) \o Join(Tail(strings))

\* text.replace(/&/g, "&amp;").replace(/>/g, "&gt;").replace(/</g, "&lt;")
EscapeText(text) ==
    Join([k \in 1..Len(text) |->
            CASE text[k] = "&" -> <<"&", "a", "m", "p", ";">>
              [] text[k] = ">" -> <<"&", "g", "t", ";">>
              [] text[k] = "<" -> <<"&", "l", "t", ";">>
              [] OTHER -> <<text[k]>>])

\* text.replace(/>/g, "&gt;")
EscapeComment(text) ==
    Join([k \in 1..Len(text) |->
            IF text[k] = ">" THEN <<"&", "g", "t", ";">> ELSE <<text[k]>>])

\* What the loop over element._attributes yields: every attribute but style
\* as  k="value".
AttributeLines(entries) ==
    Join([k \in 1..Len(entries) |->
            IF entries[k].name = STYLE
            THEN <<>>
            ELSE <<" ">> \o entries[k].name \o <<"=", "\"">>
                     \o entries[k].value \o <<"\"">>])

\* The style attribute, yielded after the others when its value is not empty.
StyleLine(entries) ==
    LET styles == {k \in 1..Len(entries) :
                     entries[k].name = STYLE /\ entries[k].value # <<>>}
    IN  IF styles = {}
        THEN <<>>
        ELSE <<" ">> \o STYLE \o <<"=", "\"">>
                 \o entries[CHOOSE k \in styles : TRUE].value \o <<"\"">>

\* node.iterXMLLines(options), joined; isHtml is options.html.
RECURSIVE IterXMLLines(_, _)
ChildLines(n, isHtml) ==
    Join([k \in 1..Len(childNodes[n]) |-> IterXMLLines(childNodes[n][k], isHtml)])

IterXMLLines(n, isHtml) ==
    CASE nodeType[n] = DOCUMENT_NODE -> XML_DECLARATION \o ChildLines(n, isHtml)
      [] nodeType[n] = DOCUMENT_FRAGMENT_NODE -> ChildLines(n, isHtml)
      [] nodeType[n] = ELEMENT_NODE ->
           LET name == nodeName[n]
               empty == IF ~isHtml THEN "undefined"
                        ELSE IF name \in HTML_NOEMPTY THEN "false"
                        ELSE IF name \in HTML_EMPTY THEN "true"
                        ELSE "undefined"
           IN  <<"<">> \o name \o AttributeLines(attributeMap[n])
                   \o StyleLine(attributeMap[n])
                   \o (IF isHtml /\ empty = "true"
                       THEN <<" ", ">">>
                       ELSE IF childNodes[n] = <<>> /\ empty # "false"
                       THEN <<" ", "/", ">">>
                       ELSE <<">">> \o ChildLines(n, isHtml)
                                \o <<"<", "/">> \o name \o <<">">>)
      [] nodeType[n] = TEXT_NODE -> EscapeText(data[n])
      [] nodeType[n] = COMMENT_NODE ->
           <<"<", "!", "-", "-">> \o EscapeComment(data[n]) \o <<"-", "-", ">">>
      [] OTHER -> <<>>

\* node.toXML() and node.toHTML() with no options.
ToXML(n) == IterXMLLines(n, FALSE)
ToHTML(n) == IterXMLLines(n, TRUE)

\* "<img src='x.png'/>"
ImgExample ==
    <<"<", "i", "m", "g", " ", "s", "r", "c", "=", "'", "x", ".", "p", "n",
      "g", "'", "/", ">">>

\* "<d><w>x</w></d>"
NestedTags == <<"<", "d", ">", "<", "w", ">", "x", "<", "/", "w", ">", "<", "/", "d",
      ">">>

\* "<d></d>"
EmptyTag == <<"<", "d", ">", "<", "/", "d", ">">>

\* "<div>", "</span>" and "<img/>"
DivTag == <<"<", "d", "i", "v", ">">>
SpanEndTag == <<"<", "/", "s", "p", "a", "n", ">">>
ImgTag == <<"<", "i", "m", "g", "/", ">">>

RoundTexts ==
    ParseTexts \cup {ImgExample, NestedTags, EmptyTag, DivTag, SpanEndTag, ImgTag}

\* No call of toHTML has been made.
NotSerialized == <<"pending">>

\* The client calls parse(markup).
ParseMarkup ==
    /\ pStatus = "idle"
    /\ BeginParse(markup)

\* doc.toXML() on the document parse returned.
CallToXML ==
    /\ pStatus = "returned"
    /\ Len(serial) < 2
    /\ gen[1].text = IF serial = <<>> THEN markup ELSE serial[1]
    /\ serial' = Append(serial, ToXML(1))
    /\ UNCHANGED <<markup, html, entityVars, domVars, treeVars, infoVars, attrVars,
                   tokVars, parseVars>>

\* parse(doc.toXML()): the serialized document is parsed again.
ParseSerialized ==
    /\ Len(serial) = 1
    /\ gen[1].text = markup
    /\ markup # serial[1]
    /\ BeginParse(serial[1])

\* doc.toHTML() on the document parse(markup) returned.
CallToHTML ==
    /\ pStatus = "returned"
    /\ gen[1].text = markup
    /\ serial = <<>>
    /\ html = NotSerialized
    /\ html' = ToHTML(1)
    /\ UNCHANGED <<markup, serial, entityVars, domVars, treeVars, infoVars, attrVars,
                   tokVars, parseVars>>

(***************************************************************************)
(* A call of expandEntities.                                               *)
(***************************************************************************)
\* The characters of the enumerated texts.
EntityAlphabet == {"&", "#", ";", "l", "t", "6"}

\* "&amp;&lt;&gt;&quot;&apos;"
FiveEntities ==
    <<"&", "a", "m", "p", ";", "&", "l", "t", ";", "&", "g", "t", ";",
      "&", "q", "u", "o", "t", ";", "&", "a", "p", "o", "s", ";">>

\* "&#65;", "&#9999999;", "&foo;", "&AMP;", "&constructor;"
NumericEntity == <<"&", "#", "6", "5", ";">>
OutOfRangeEntity == <<"&", "#", "9", "9", "9", "9", "9", "9", "9", ";">>
UnknownEntity == <<"&", "f", "o", "o", ";">>
UpperCaseEntity == <<"&", "A", "M", "P", ";">>
InheritedEntity == <<"&">> \o INHERITED_NAME \o <<";">>

EntityExamples ==
    {FiveEntities, NumericEntity, OutOfRangeEntity, UnknownEntity,
     UpperCaseEntity, InheritedEntity}

EntityTexts == StringsUpTo(EntityAlphabet, MaxEntityLen) \cup EntityExamples

\* No call of expandEntities has been made.
NotExpanded == <<"pending">>

\* A client calls expandEntities(eeText).
CallExpandEntities ==
    /\ eeResult = NotExpanded
    /\ eeResult' = ExpandEntities(eeText)
    /\ UNCHANGED <<eeText, treeVars, infoVars, attrVars, tokVars, parseVars,
                   roundVars, domVars>>

(***************************************************************************)
(* A call of parseAttributes.                                              *)
(***************************************************************************)
Pending == [status |-> "pending", attributes |-> <<>>]

\* A client calls parseAttributes(paText).
CallParseAttributes ==
    /\ paResult = Pending
    /\ paResult' = ParseAttributes(paText, <<>>)
    /\ UNCHANGED <<paText, treeVars, infoVars, tokVars, parseVars, extVars>>

(***************************************************************************)
(* The mutation calls a client makes on the pool of nodes.  `found` is the *)
(* outcome of the method's own indexOf test (TRUE for appendChild).        *)
(***************************************************************************)
Call(op, this, node, ref, found, result) ==
    [op |-> op, this |-> this, node |-> node, ref |-> ref,
     found |-> found, result |-> result]

Commit(s, call) ==
    /\ budget > 0
    /\ budget' = budget - 1
    /\ childNodes' = s.c
    /\ parentNode' = s.p
    /\ last' = call
    /\ UNCHANGED <<nodeType, content, pool>>
    /\ UNCHANGED <<infoVars, attrVars, extVars, tokVars, parseVars>>

DoAppendChild(a, n) ==
    LET s == AppendChild(CurrentTree, a, n, 0)
    IN  Commit(s, Call("appendChild", a, n, NULL, TRUE, s.err))

DoRemoveChild(a, n) ==
    LET s == RemoveChild(CurrentTree, a, n)
    IN  Commit(s, Call("removeChild", a, n, NULL, n \in Range(childNodes[a]), s.err))

DoReplaceChild(a, n, o) ==
    LET s == ReplaceChild(CurrentTree, a, n, o)
    IN  Commit(s, Call("replaceChild", a, n, o, o \in Range(childNodes[a]), s.err))

DoInsertBefore(a, n, r) ==
    LET s == InsertBefore(CurrentTree, a, n, r, 0)
    IN  Commit(s, Call("insertBefore", a, n, r,
                       r = NULL \/ r \in Range(childNodes[a]), s.err))

(***************************************************************************)
(* Queries.                                                                *)
(***************************************************************************)
\* The name class of RE_QUERY, [\w\d_-].
QueryNameChars == WordChars \cup {"-"}

\* A match of RE_QUERY: where it ends, its text and its named groups.
QueryMatch(end, text, type, name, attributes) ==
    [found |-> TRUE, end |-> end, text |-> text, type |-> type, name |-> name,
     attributes |-> attributes]

\* RE_QUERY tried at index i: [.#]? and a name, or a bracketed attribute
\* test.
QueryAt(query, i) ==
    LET typed == /\ CharAt(query, i) \in {".", "#"}
                 /\ i + 1 < Len(query)
                 /\ CharAt(query, i + 1) \in QueryNameChars
        start == IF typed THEN i + 1 ELSE i
        close == IndexOfChar(query, "]", i + 1)
    IN  IF CharAt(query, start) \in QueryNameChars
        THEN Bind(RunEnd(query, start, QueryNameChars), LAMBDA end :
                QueryMatch(end, Substring(query, i, end),
                           Substring(query, i, start),
                           Substring(query, start, end), <<>>))
        ELSE IF CharAt(query, i) = "[" /\ close > i + 1
        THEN QueryMatch(close + 1, Substring(query, i, close + 1), <<>>, <<>>,
                        Substring(query, i + 1, close))
        ELSE NoMatch

\* query.match(RE_QUERY): RE_QUERY has the g flag, so String.prototype.match
\* returns the matched substrings, each a plain string, and not the match
\* objects that carry the groups.
RECURSIVE StringMatch(_, _)
StringMatch(query, from) ==
    Bind({k \in from..(Len(query) - 1) : QueryAt(query, k).found}, LAMBDA hits :
        IF hits = {}
        THEN <<>>
        ELSE Bind(QueryAt(query, Least(hits)), LAMBDA m :
                <<m.text>> \o StringMatch(query, m.end)))

\* The value of a property no string has (match.groups).
UNDEFINED == [defined |-> FALSE]

\* match.groups for an element match of the array query.match returned.
GroupsOf(match) == UNDEFINED

\* g?.attributes, match.groups?.type, match.groups?.name || ""
GroupOr(groups, field, otherwise) ==
    IF groups = UNDEFINED \/ groups[field] = <<>>
    THEN otherwise
    ELSE groups[field]

\* The selector the constructor of Query makes of one match.  The attributes
\* are parsed with RE_QUERY_ATTR only when the group attributes is there;
\* without it the field is null, here the empty list.
Selector(match) ==
    Bind(GroupsOf(match), LAMBDA g :
        [type |-> IF GroupOr(g, "attributes", <<>>) # <<>>
                  THEN <<"@">>
                  ELSE GroupOr(g, "type", <<>>),
         name |-> GroupOr(g, "name", <<>>),
         attributes |-> <<>>])

\* new Query(query).selectors
Selectors(query) ==
    Bind(StringMatch(query, 0), LAMBDA matches :
        [i \in 1..Len(matches) |-> Selector(matches[i])])

\* text.toLowerCase()
LowerCased(text) == [i \in 1..Len(text) |-> ToLowerCase(text[i])]

\* The entry of name in element._attributes, or NULL.
AttributeEntry(node, name) ==
    LET hits == {i \in 1..Len(attributeMap[node]) :
                    attributeMap[node][i].name = name}
    IN  IF hits = {} THEN NULL ELSE attributeMap[node][Least(hits)]

\* element.hasAttribute(name)
HasAttribute(node, name) ==
    \E i \in 1..Len(attributeMap[node]) : attributeMap[node][i].name = name

\* element.getAttribute(name): the value of the attribute node, or null.
GetAttribute(node, name) ==
    IF HasAttribute(node, name) THEN AttributeEntry(node, name).value ELSE NULL

\* text.split(" ")
RECURSIVE SplitSpace(_)
SplitSpace(text) ==
    Bind(IndexOfChar(text, " ", 0), LAMBDA i :
        IF i < 0
        THEN <<text>>
        ELSE <<Substring(text, 0, i)>> \o SplitSpace(SubstringFrom(text, i + 1)))

\* element.classList.contains(value)
ClassListContains(node, value) ==
    LET class == <<"c", "l", "a", "s", "s">>
        v == IF HasAttribute(node, class) THEN GetAttribute(node, class) ELSE <<>>
    IN  value \in Range(SplitSpace(v))

\* Query.match(node) from selector i on; the loop returns at the first test
\* that fails, and at an attribute test.  The types a selector can have are
\* "", ".", "#" and "@", so the default case that throws is never taken.
RECURSIVE QueryMatchFrom(_, _, _)
QueryMatchFrom(selectors, node, i) ==
    IF i > Len(selectors)
    THEN TRUE
    ELSE IF nodeType[node] # ELEMENT_NODE
    THEN FALSE
    ELSE LET type == selectors[i].type
             name == selectors[i].name
         IN  IF type = <<>>
             THEN IF /\ nodeName[node] # name
                     /\ LowerCased(nodeName[node]) # LowerCased(name)
                  THEN FALSE
                  ELSE QueryMatchFrom(selectors, node, i + 1)
             ELSE IF type = <<".">>
             THEN IF ~ClassListContains(node, name)
                  THEN FALSE
                  ELSE QueryMatchFrom(selectors, node, i + 1)
             ELSE IF type = <<"#">>
             THEN IF \/ ~HasAttribute(node, <<"i", "d">>)
                     \/ GetAttribute(node, <<"i", "d">>) # name
                  THEN FALSE
                  ELSE QueryMatchFrom(selectors, node, i + 1)
             ELSE IF selectors[i].attributes # <<>>
             THEN HasAttribute(node, selectors[i].attributes[1].name)
             ELSE TRUE

\* node.iterWalk(callback) with a callback that never returns false: the
\* node, then its descendants, in document order.
RECURSIVE IterWalk(_)
RECURSIVE WalkEach(_)
WalkEach(nodes) ==
    IF nodes = <<>> THEN <<>> ELSE IterWalk(Head(nodes)) \o WalkEach(Tail(nodes))

IterWalk(node) == <<node>> \o WalkEach(childNodes[node])

\* query.split(/\s+/)
RECURSIVE SplitSteps(_)
SplitSteps(query) ==
    Bind(IndexOfAny(query, WhiteSpace, 0), LAMBDA i :
        IF i < 0
        THEN <<query>>
        ELSE Bind(RunEnd(query, i, WhiteSpace), LAMBDA end :
                <<Substring(query, 0, i)>>
                    \o SplitSteps(SubstringFrom(query, end))))

\* The nodes of the subtrees of scope that q matches, in the order found.
Matched(scope, selectors) ==
    SelectSeq(WalkEach(scope), LAMBDA n : QueryMatchFrom(selectors, n, 1))

\* The loop of querySelectorAll over the steps qs of the query.  Each step
\* builds its Query from the whole query: `new Query(query)`.
RECURSIVE QuerySteps(_, _, _)
QuerySteps(scope, steps, query) ==
    IF steps = <<>>
    THEN IF query # <<>> THEN scope ELSE <<>>
    ELSE Bind(IF Head(steps) # <<>>
              THEN Matched(scope, Selectors(query))
              ELSE scope, LAMBDA matched :
            IF matched = <<>>
            THEN <<>>
            ELSE QuerySteps(matched, Tail(steps), query))

\* this.querySelectorAll(query)
QuerySelectorAll(this, query) == QuerySteps(<<this>>, SplitSteps(query), query)

\* this.querySelector(query): querySelectorAll(query)[0], NULL for undefined.
QuerySelector(this, query) ==
    Bind(QuerySelectorAll(this, query), LAMBDA all :
        IF all = <<>> THEN NULL ELSE all[1])

\* No call of querySelectorAll has been made.
NotQueried == <<NULL>>

\* The names, attribute lists and queries of the enumerated documents.
DIV == <<"d", "i", "v">>
SPAN == <<"s", "p", "a", "n">>
QueryNames == {DIV, SPAN}
ClassAB == <<ValueEntry(<<"c", "l", "a", "s", "s">>, <<"a", " ", "b">>)>>
IdX == <<ValueEntry(<<"i", "d">>, <<"x">>)>>
QueryAttributes == {<<>>, ClassAB, IdX}
ById == <<"#", "x">>
ByClass == <<".", "a">>
ByDescendant == <<"d", "i", "v", " ", "s", "p", "a", "n">>
Queries ==
    {ById, ByClass, ByDescendant, DIV, SPAN, <<"[", "i", "d", "]">>, <<>>}

\* A document with two elements, as createElement, setAttribute and
\* appendChild build it: node 1 is the document, node 2 its child, and node 3
\* the child of node 2 (nested) or the second child of the document.
QueryDocument(name2, attributes2, name3, attributes3, nested) ==
    /\ nodeType = [n \in AllNodes |->
                     IF n = 1 THEN DOCUMENT_NODE
                     ELSE IF n \in {2, 3} THEN ELEMENT_NODE ELSE NULL]
    /\ nodeName = [n \in AllNodes |->
                     IF n = 1 THEN DocumentNames[1]
                     ELSE IF n = 2 THEN name2
                     ELSE IF n = 3 THEN name3 ELSE <<>>]
    /\ attributeMap = [n \in AllNodes |->
                         IF n = 2 THEN attributes2
                         ELSE IF n = 3 THEN attributes3 ELSE <<>>]
    /\ childNodes = [n \in AllNodes |->
                       IF n = 1 THEN (IF nested THEN <<2>> ELSE <<2, 3>>)
                       ELSE IF n = 2 /\ nested THEN <<3>> ELSE <<>>]
    /\ parentNode = [n \in AllNodes |->
                       IF n = 2 THEN 1
                       ELSE IF n = 3 THEN (IF nested THEN 2 ELSE 1) ELSE NULL]
    /\ data = [n \in AllNodes |-> <<>>]
    /\ content = [n \in AllNodes |-> NULL]

\* <div class="a b"><span id="x"/></div>
QueryExample == QueryDocument(DIV, ClassAB, SPAN, IdX, TRUE)

\* A client calls this.querySelectorAll(query).
CallQuerySelectorAll(this, query) ==
    /\ qThis' = this
    /\ qText' = query
    /\ qResult' = QuerySelectorAll(this, query)
    /\ UNCHANGED <<treeVars, infoVars, attrVars, tokVars, parseVars,
                   entityVars, roundVars, walkVars, attrNodeVars, cloneVars>>

(***************************************************************************)
(* TreeWalker.                                                             *)
(***************************************************************************)
\* NodeFilter.  SHOW_ALL is 4294967295, which the operator & reads as the
\* 32-bit integer -1: every bit set.
SHOW_ALL == -1
SHOW_COMMENT == 128
SHOW_DOCUMENT == 256
SHOW_DOCUMENT_FRAGMENT == 1024
SHOW_ELEMENT == 1
SHOW_TEXT == 4

\* !!(nodeFilter & show) for a one-bit mask show and a 32-bit nodeFilter in
\* two's complement.
HasBit(nodeFilter, show) == (nodeFilter \div show) % 2 = 1

\* node.nextSibling: this.parentNode?.childNodes[this._index + 1] || null,
\* where _index is -1 for a node its parent's array does not hold.
NextSibling(node) ==
    IF parentNode[node] = NULL
    THEN NULL
    ELSE LET siblings == childNodes[parentNode[node]]
             k == IndexOf(siblings, node) + 1
         IN  IF k <= Len(siblings) THEN siblings[k] ELSE NULL

\* The while loop of _nextNode: n steps to its parent before any sibling is
\* looked at.
RECURSIVE Climb(_)
Climb(n) ==
    IF n = NULL \/ parentNode[n] = NULL
    THEN NULL
    ELSE IF NextSibling(parentNode[n]) # NULL
    THEN NextSibling(parentNode[n])
    ELSE Climb(parentNode[n])

\* walker._nextNode(node); the last branch starts from the parent of
\* this.currentNode.
WalkerNext(node, currentNode) ==
    IF node = NULL
    THEN NULL
    ELSE IF childNodes[node] # <<>>
    THEN childNodes[node][1]
    ELSE IF NextSibling(node) # NULL
    THEN NextSibling(node)
    ELSE Climb(parentNode[currentNode])

\* walker._acceptNode(node)
AcceptNode(node, nodeFilter) ==
    CASE nodeType[node] = ELEMENT_NODE -> HasBit(nodeFilter, SHOW_ELEMENT)
      [] nodeType[node] = DOCUMENT_NODE -> HasBit(nodeFilter, SHOW_DOCUMENT)
      [] nodeType[node] = DOCUMENT_FRAGMENT_NODE ->
             HasBit(nodeFilter, SHOW_DOCUMENT_FRAGMENT)
      [] nodeType[node] = TEXT_NODE -> HasBit(nodeFilter, SHOW_TEXT)
      [] nodeType[node] = COMMENT_NODE -> HasBit(nodeFilter, SHOW_COMMENT)
      [] OTHER -> FALSE

\* The while loop of nextNode.  currentNode does not change in the loop, so
\* the loop's state is next alone: a value of next that comes back means the
\* loop never ends.
RECURSIVE SkipRejected(_, _, _, _)
SkipRejected(next, currentNode, nodeFilter, seen) ==
    IF next = NULL \/ AcceptNode(next, nodeFilter)
    THEN [status |-> "returned", node |-> next]
    ELSE IF next \in seen
    THEN [status |-> "hung", node |-> NULL]
    ELSE SkipRejected(WalkerNext(next, currentNode), currentNode, nodeFilter,
                      seen \cup {next})

\* walker.nextNode()
NextNode(currentNode, nodeFilter) ==
    SkipRejected(WalkerNext(currentNode, currentNode), currentNode, nodeFilter, {})

\* The calls of nextNode a walker gets: enough for every node and two nulls.
MaxWalks == NumNodes + 3

\* A client calls walker.nextNode().
CallNextNode ==
    /\ twStatus = "ready"
    /\ Len(twReturned) < MaxWalks
    /\ \E r \in {NextNode(twCurrent, twFilter)} :
          IF r.status = "hung"
          THEN /\ twStatus' = "hung"
               /\ UNCHANGED <<twCurrent, twReturned>>
          ELSE /\ twCurrent' = r.node
               /\ twReturned' = Append(twReturned, r.node)
               /\ UNCHANGED twStatus
    /\ UNCHANGED <<twRoot, twFilter, treeVars, infoVars, attrVars, tokVars,
                   parseVars, entityVars, roundVars, queryVars, attrNodeVars,
                   cloneVars>>

\* The elements of a set of numbers in ascending order.
RECURSIVE Ascending(_)
Ascending(set) ==
    IF set = {} THEN <<>> ELSE <<Least(set)>> \o Ascending(set \ {Least(set)})

\* The trees over all the nodes with node 1 at the top: the parent of a node
\* has a smaller number, children are appended in ascending order, and only
\* an Element has children.
WalkShapes ==
    {p \in [AllNodes \ {1} -> AllNodes] : \A n \in AllNodes \ {1} : p[n] < n}
WalkTypes(p) ==
    {t \in [AllNodes -> {ELEMENT_NODE, TEXT_NODE}] :
        /\ t[1] = ELEMENT_NODE
        /\ \A n \in AllNodes \ {1} : t[p[n]] = ELEMENT_NODE}

\* The tree of shape p with node types t, as appendChild builds it.
WalkTree(p, t) ==
    /\ nodeType = t
    /\ parentNode = [n \in AllNodes |-> IF n = 1 THEN NULL ELSE p[n]]
    /\ childNodes = [n \in AllNodes |->
                       Ascending({c \in AllNodes \ {1} : p[c] = n})]
    /\ content = [n \in AllNodes |-> NULL]
    /\ nodeName = [n \in AllNodes |-> <<>>]
    /\ data = [n \in AllNodes |-> <<>>]
    /\ attributeMap = [n \in AllNodes |-> <<>>]

WalkFilters == {SHOW_ELEMENT, SHOW_TEXT, SHOW_ELEMENT + SHOW_TEXT, SHOW_ALL}

(***************************************************************************)
(* Attribute nodes.  Every attribute node here has the namespace null, so  *)
(* the maps of _attributesNS stay empty and the namespace branches of the  *)
(* methods are not taken.  An attribute heap h is a record: h.o is         *)
(* ownerElement, h.n is name, h.v is _value, h.m is _attributes, and h.err *)
(* is "ok" or the name of the error the call raised.                       *)
(***************************************************************************)
MaxAttrNodes == 4
MaxAttrCalls == 4
AttrIds == 1..MaxAttrNodes

AttributeHeap ==
    [o |-> ownerElement, n |-> attrName, v |-> attrValue, m |-> attributeNodes,
     err |-> "ok"]

\* map.get(name): the node, or NULL.
MapGet(map, name) ==
    LET hits == {i \in 1..Len(map) : map[i].name = name}
    IN  IF hits = {} THEN NULL ELSE map[Least(hits)].node

\* map.set(name, node): an existing key keeps its place.
MapSet(map, name, node) ==
    IF \E i \in 1..Len(map) : map[i].name = name
    THEN [i \in 1..Len(map) |->
            IF map[i].name = name THEN [name |-> name, node |-> node] ELSE map[i]]
    ELSE Append(map, [name |-> name, node |-> node])

\* map.delete(name)
MapDelete(map, name) == SelectSeq(map, LAMBDA entry : entry.name # name)

\* attr._value || ""
ValueOrEmpty(h, a) == IF h.v[a] = <<>> THEN <<>> ELSE h.v[a][1]

\* get value(): through the map of the owner, when there is an owner.
NodeValue(h, a) ==
    IF h.o[a] # NULL
    THEN LET attr == MapGet(h.m[h.o[a]], h.n[a])
         IN  IF attr # NULL THEN ValueOrEmpty(h, attr) ELSE <<>>
    ELSE ValueOrEmpty(h, a)

\* set value(value)
SetValue(h, a, value) ==
    [h EXCEPT !.v[a] = <<value>>,
              !.m = IF h.o[a] # NULL
                    THEN [h.m EXCEPT ![h.o[a]] = MapSet(@, h.n[a], a)]
                    ELSE h.m]

\* The node the next `new AttributeNode` makes.
FreshAttr(h) == Least({a \in DOMAIN h.n : h.n[a] = <<>>})

\* new AttributeNode(name, null, ownerElement) as node a
NewAttributeNode(h, a, name, owner) ==
    [h EXCEPT !.n[a] = name, !.o[a] = owner, !.v[a] = <<>>]

\* element.setAttribute(name, value)
SetAttribute(h, this, name, value) ==
    LET attrNode == FreshAttr(h)
        set == SetValue(NewAttributeNode(h, attrNode, name, this), attrNode, value)
    IN  [set EXCEPT !.m[this] = MapSet(@, name, attrNode)]

\* element.setAttributeNode(node)
SetAttributeNode(h, this, node) ==
    [h EXCEPT !.o[node] = this, !.m[this] = MapSet(@, h.n[node], node)]

\* element.removeAttribute(name), for a name other than "style"
RemoveAttribute(h, this, name) == [h EXCEPT !.m[this] = MapDelete(@, name)]

\* element.removeAttributeNode(attributeNode)
RemoveAttributeNode(h, this, attributeNode) ==
    IF h.o[attributeNode] # this
    THEN [h EXCEPT !.err = "NotFoundError"]
    ELSE [h EXCEPT !.m[this] = MapDelete(@, h.n[attributeNode]),
                   !.o[attributeNode] = NULL]

\* element.addAttributeNode(attributeNode)
AddAttributeNode(h, this, attributeNode) ==
    IF h.o[attributeNode] # NULL /\ h.o[attributeNode] # this
    THEN [h EXCEPT !.err = "InUseAttributeError"]
    ELSE [h EXCEPT !.o[attributeNode] = this,
                   !.m[this] = MapSet(@, h.n[attributeNode], attributeNode)]

\* element.getAttribute(name) when the element has the attribute.
AttributeValue(h, this, name) == NodeValue(h, MapGet(h.m[this], name))

\* The names and values a client gives, and the two elements it works on.
AttrNames == {<<"k">>, <<"m">>}
AttrValues == {<<"u">>, <<"v">>}
AttrElements == {1, 2}

AttrCall(op, this, node, err) ==
    [op |-> op, this |-> this, node |-> node, err |-> err]

\* The attribute nodes constructed so far.
Constructed == {a \in AttrIds : attrName[a] # <<>>}

\* The effect of a call on the attribute nodes and the maps; budget counts
\* the calls a behaviour may still make.
CommitAttr(h, op, this, node) ==
    /\ ownerElement' = h.o
    /\ attrName' = h.n
    /\ attrValue' = h.v
    /\ attributeNodes' = h.m
    /\ attrCall' = AttrCall(op, this, node, h.err)
    /\ budget > 0
    /\ budget' = budget - 1
    /\ UNCHANGED <<nodeType, content, childNodes, parentNode, pool, last,
                   infoVars, attrVars, tokVars, parseVars, entityVars,
                   roundVars, queryVars, walkVars, cloneVars>>

\* A client constructs a detached node: new AttributeNode(name, null, null).
DoNewAttributeNode(name) ==
    /\ Constructed # AttrIds
    /\ CommitAttr(NewAttributeNode(AttributeHeap, FreshAttr(AttributeHeap), name, NULL),
                  "new", NULL, FreshAttr(AttributeHeap))

DoSetAttribute(this, name, value) ==
    /\ Constructed # AttrIds
    /\ CommitAttr(SetAttribute(AttributeHeap, this, name, value),
                  "setAttribute", this, FreshAttr(AttributeHeap))

DoSetAttributeNode(this, node) ==
    /\ node \in Constructed
    /\ CommitAttr(SetAttributeNode(AttributeHeap, this, node),
                  "setAttributeNode", this, node)

DoAddAttributeNode(this, node) ==
    /\ node \in Constructed
    /\ CommitAttr(AddAttributeNode(AttributeHeap, this, node),
                  "addAttributeNode", this, node)

DoRemoveAttribute(this, name) ==
    /\ nodeType[this] = ELEMENT_NODE
    /\ CommitAttr(RemoveAttribute(AttributeHeap, this, name),
                  "removeAttribute", this, MapGet(attributeNodes[this], name))

DoRemoveAttributeNode(this, node) ==
    /\ node \in Constructed
    /\ CommitAttr(RemoveAttributeNode(AttributeHeap, this, node),
                  "removeAttributeNode", this, node)

\* node.value = value
DoSetValue(node, value) ==
    /\ node \in Constructed
    /\ CommitAttr(SetValue(AttributeHeap, node, value), "value", NULL, node)

(***************************************************************************)
(* Event listeners and cloneNode.  A Set object has an identity: eventSets *)
(* maps it to its members in insertion order, and the _eventListeners map  *)
(* of a node holds entries [type, set].  A clone heap w is an attribute    *)
(* heap extended with the node fields: w.t is nodeType, w.nm nodeName,     *)
(* w.d data, w.c childNodes, w.p parentNode, w.ls _eventListeners and w.es *)
(* the Set objects.  A node whose nodeType is NULL is not constructed.     *)
(***************************************************************************)
MaxSets == 4
MaxCloneCalls == 2
SetIds == 1..MaxSets
CloneNodes == 1..(2 * NumNodes)

\* A Set object that has not been constructed.
NoSet == [used |-> FALSE, members |-> <<>>]

CloneHeap ==
    [t |-> nodeType, nm |-> nodeName, d |-> data, c |-> childNodes,
     p |-> parentNode, o |-> ownerElement, n |-> attrName, v |-> attrValue,
     m |-> attributeNodes, err |-> "ok", ls |-> eventListeners,
     es |-> eventSets]

\* The Set object the next `new Set` makes.
FreshSet(w) == Least({s \in DOMAIN w.es : ~w.es[s].used})

\* _eventListeners.get(type): the Set object, or NULL.
ListenersGet(w, this, type) ==
    LET hits == {i \in 1..Len(w.ls[this]) : w.ls[this][i].type = type}
    IN  IF hits = {} THEN NULL ELSE w.ls[this][Least(hits)].set

\* set.add(listener): a member keeps its place.
SetAdd(members, listener) ==
    IF \E i \in 1..Len(members) : members[i] = listener
    THEN members ELSE Append(members, listener)

\* node.addEventListener(type, listener)
AddEventListener(w, this, type, listener) ==
    LET s == IF ListenersGet(w, this, type) = NULL
             THEN FreshSet(w) ELSE ListenersGet(w, this, type)
        made == IF ListenersGet(w, this, type) = NULL
                THEN [w EXCEPT !.es[s] = [used |-> TRUE, members |-> <<>>],
                               !.ls[this] = Append(@, [type |-> type, set |-> s])]
                ELSE w
    IN  [made EXCEPT !.es[s].members = SetAdd(@, listener)]

\* node.removeEventListener(type, listener)
RemoveEventListener(w, this, type, listener) ==
    LET s == ListenersGet(w, this, type)
    IN  IF s = NULL
        THEN w
        ELSE LET left == SelectSeq(w.es[s].members, LAMBDA member : member # listener)
             IN  [w EXCEPT !.es[s].members = left,
                           !.ls[this] = IF left = <<>>
                                        THEN SelectSeq(@, LAMBDA entry : entry.type # type)
                                        ELSE @]

\* The node the next constructor call makes.
FreshCloneNode(w) == Least({k \in DOMAIN w.t : w.t[k] = NULL})

\* n._eventListeners.set(type, listeners): the clone takes the Set object of
\* the receiver instead of a copy.
ShareListeners(w, n, entry) ==
    [w EXCEPT !.ls[n] = Append(@, [type |-> entry.type, set |-> entry.set])]

\* n._eventListeners.set(type, new Set(listeners)) for one entry of the
\* map of the receiver.
CopyListeners(w, n, entry) ==
    [w EXCEPT !.es[FreshSet(w)] = [used |-> TRUE, members |-> w.es[entry.set].members],
              !.ls[n] = Append(@, [type |-> entry.type, set |-> FreshSet(w)])]

\* The for loop over this._eventListeners.entries(), from entry i on.
RECURSIVE CloneListeners(_, _, _, _)
CloneListeners(w, this, n, i) ==
    IF i > Len(w.ls[this])
    THEN w
    ELSE CloneListeners(CopyListeners(w, n, w.ls[this][i]), this, n, i + 1)

\* The loop of Element.cloneNode over this._attributes.entries(), from
\* entry i on: a new attribute node owned by res takes the value of v.
RECURSIVE CloneAttributes(_, _, _, _)
CloneAttributes(w, this, res, i) ==
    IF i > Len(w.m[this])
    THEN w
    ELSE Bind(w.m[this][i], LAMBDA kv :
         Bind(FreshAttr(w), LAMBDA clonedAttr :
         Bind(SetValue(NewAttributeNode(w, clonedAttr, kv.name, res),
                       clonedAttr, NodeValue(w, kv.node)), LAMBDA set :
            CloneAttributes([set EXCEPT !.m[res] = MapSet(@, kv.name, clonedAttr)],
                            this, res, i + 1))))

\* this.cloneNode(deep): the heap afterwards and the node returned.  The
\* node n of _create() takes the fields of the receiver, an own map of
\* listener sets and, when deep, the clones of the children with n as
\* their parent; an Element then takes its attributes.
RECURSIVE CloneNode(_, _, _)
RECURSIVE CloneChildren(_, _, _, _, _)
CloneChildren(w, this, n, deep, i) ==
    IF i > Len(w.c[this])
    THEN w
    ELSE Bind(CloneNode(w, w.c[this][i], deep), LAMBDA r :
            CloneChildren([r.w EXCEPT !.p[r.node] = n, !.c[n] = Append(@, r.node)],
                          this, n, deep, i + 1))

NodeCloneNode(w, this, deep) ==
    Bind(FreshCloneNode(w), LAMBDA n :
    Bind([w EXCEPT !.t[n] = w.t[this], !.nm[n] = w.nm[this], !.d[n] = w.d[this],
                   !.p[n] = NULL, !.c[n] = <<>>, !.ls[n] = <<>>, !.m[n] = <<>>],
         LAMBDA created :
            [w |-> IF deep
                   THEN CloneChildren(CloneListeners(created, this, n, 1), this, n, deep, 1)
                   ELSE CloneListeners(created, this, n, 1),
             node |-> n]))

ElementCloneNode(w, this, deep) ==
    Bind(NodeCloneNode(w, this, deep), LAMBDA res :
        [w |-> CloneAttributes(res.w, this, res.node, 1), node |-> res.node])

CloneNode(w, this, deep) ==
    IF w.t[this] = ELEMENT_NODE
    THEN ElementCloneNode(w, this, deep)
    ELSE NodeCloneNode(w, this, deep)

\* The effect of cloneNode, or of a later call on either tree, on the nodes,
\* the attribute nodes and the listener sets.
CommitClone(w, op, this, node) ==
    /\ budget > 0
    /\ budget' = budget - 1
    /\ nodeType' = w.t
    /\ nodeName' = w.nm
    /\ data' = w.d
    /\ childNodes' = w.c
    /\ parentNode' = w.p
    /\ ownerElement' = w.o
    /\ attrName' = w.n
    /\ attrValue' = w.v
    /\ attributeNodes' = w.m
    /\ eventListeners' = w.ls
    /\ eventSets' = w.es
    /\ attrCall' = AttrCall(op, this, node, w.err)
    /\ UNCHANGED <<content, pool, last, attributeMap, attrVars, tokVars,
                   parseVars, entityVars, roundVars, queryVars, walkVars>>

\* this.cloneNode(true), called once.
CallCloneNode(this) ==
    /\ cloneResult = NULL
    /\ nodeType[this] # NULL
    /\ \E r \in {CloneNode(CloneHeap, this, TRUE)} :
          /\ CommitClone(r.w, "cloneNode", this, NULL)
          /\ cloneSource' = this
          /\ cloneResult' = r.node

\* The calls a client makes after cloneNode on a node of either tree.
AfterSetAttribute(this, name, value) ==
    /\ cloneResult # NULL
    /\ nodeType[this] = ELEMENT_NODE
    /\ \E a \in AttrIds : attrName[a] = <<>>
    /\ CommitClone(SetAttribute(CloneHeap, this, name, value),
                   "setAttribute", this, FreshAttr(CloneHeap))
    /\ UNCHANGED <<cloneSource, cloneResult>>

AfterRemoveAttribute(this, name) ==
    /\ cloneResult # NULL
    /\ nodeType[this] = ELEMENT_NODE
    /\ CommitClone(RemoveAttribute(CloneHeap, this, name),
                   "removeAttribute", this, MapGet(attributeNodes[this], name))
    /\ UNCHANGED <<cloneSource, cloneResult>>

AfterSetValue(node, value) ==
    /\ cloneResult # NULL
    /\ attrName[node] # <<>>
    /\ CommitClone(SetValue(CloneHeap, node, value), "value",
                   ownerElement[node], node)
    /\ UNCHANGED <<cloneSource, cloneResult>>

AfterAddEventListener(this, type, listener) ==
    /\ cloneResult # NULL
    /\ nodeType[this] # NULL
    /\ \/ ListenersGet(CloneHeap, this, type) # NULL
       \/ \E s \in SetIds : ~eventSets[s].used
    /\ CommitClone(AddEventListener(CloneHeap, this, type, listener),
                   "addEventListener", this, NULL)
    /\ UNCHANGED <<cloneSource, cloneResult>>

AfterRemoveEventListener(this, type, listener) ==
    /\ cloneResult # NULL
    /\ nodeType[this] # NULL
    /\ CommitClone(RemoveEventListener(CloneHeap, this, type, listener),
                   "removeEventListener", this, NULL)
    /\ UNCHANGED <<cloneSource, cloneResult>>

\* The trees cloneNode is called on: a div with a span child, with a second
\* child beside the span, or with a child under the span; that third node
\* is an element, a text or a comment.
CloneShapes == {"pair", "wide", "deep"}
CloneLeaves == {ELEMENT_NODE, TEXT_NODE, COMMENT_NODE}
LeafName(leaf) ==
    IF leaf = ELEMENT_NODE THEN SPAN
    ELSE IF leaf = TEXT_NODE THEN <<"#", "t", "e", "x", "t">>
    ELSE <<"#", "c", "o", "m", "m", "e", "n", "t">>

ConstructedTree(shape, leaf) ==
    [t |-> [k \in CloneNodes |->
              IF k \in {1, 2} THEN ELEMENT_NODE
              ELSE IF k = 3 /\ shape # "pair" THEN leaf ELSE NULL],
     nm |-> [k \in CloneNodes |->
              IF k = 1 THEN DIV
              ELSE IF k = 2 THEN SPAN
              ELSE IF k = 3 /\ shape # "pair" THEN LeafName(leaf) ELSE <<>>],
     d |-> [k \in CloneNodes |->
              IF k = 3 /\ shape # "pair" /\ leaf # ELEMENT_NODE THEN <<"x">> ELSE <<>>],
     c |-> [k \in CloneNodes |->
              IF k = 1 THEN (IF shape = "wide" THEN <<2, 3>> ELSE <<2>>)
              ELSE IF k = 2 /\ shape = "deep" THEN <<3>> ELSE <<>>],
     p |-> [k \in CloneNodes |->
              IF k = 2 THEN 1
              ELSE IF k = 3 /\ shape = "wide" THEN 1
              ELSE IF k = 3 /\ shape = "deep" THEN 2 ELSE NULL],
     o |-> [a \in AttrIds |-> NULL],
     n |-> [a \in AttrIds |-> <<>>],
     v |-> [a \in AttrIds |-> <<>>],
     m |-> [k \in CloneNodes |-> <<>>],
     err |-> "ok",
     ls |-> [k \in CloneNodes |-> <<>>],
     es |-> [s \in SetIds |-> NoSet]]

\* The setAttribute and addEventListener calls made on the tree before it is
\* cloned.
EventTypes == {"click", "key"}
Listeners == {"f", "g"}
AttributeSetups ==
    {<<>>,
     <<[this |-> 1, name |-> <<"k">>, value |-> <<"u">>],
       [this |-> 1, name |-> <<"m">>, value |-> <<"v">>]>>,
     <<[this |-> 1, name |-> <<"k">>, value |-> <<"u">>],
       [this |-> 2, name |-> <<"k">>, value |-> <<"v">>]>>}
ListenerSetups ==
    {<<>>,
     <<[this |-> 1, type |-> "click", listener |-> "f"],
       [this |-> 1, type |-> "click", listener |-> "g"]>>,
     <<[this |-> 1, type |-> "click", listener |-> "f"],
       [this |-> 2, type |-> "key", listener |-> "g"]>>}

RECURSIVE WithAttributes(_, _, _)
WithAttributes(w, calls, i) ==
    IF i > Len(calls)
    THEN w
    ELSE WithAttributes(SetAttribute(w, calls[i].this, calls[i].name, calls[i].value),
                        calls, i + 1)

RECURSIVE WithListeners(_, _, _)
WithListeners(w, calls, i) ==
    IF i > Len(calls)
    THEN w
    ELSE WithListeners(AddEventListener(w, calls[i].this, calls[i].type,
                                        calls[i].listener),
                       calls, i + 1)

\* No call of parseAttributes is under test.
AttrIdle ==
    /\ paText = <<>>
    /\ paResult = Pending

\* No generator exists; RE_TAG is as the module created it.
TokIdle ==
    /\ reLastIndex = 0
    /\ gen = <<>>
    /\ taken = <<>>

\* No call of parse has been made.
ParseIdle ==
    /\ pStatus = "idle"
    /\ stack = <<>>
    /\ current = NULL
    /\ marker = NoMarker

EntityIdle ==
    /\ eeText = <<>>
    /\ eeResult = NotExpanded

RoundIdle ==
    /\ markup = <<>>
    /\ serial = <<>>
    /\ html = NotSerialized

\* No call of querySelectorAll has been made.
QueryIdle ==
    /\ qThis = NULL
    /\ qText = <<>>
    /\ qResult = NotQueried

\* No TreeWalker exists.
WalkIdle ==
    /\ twRoot = NULL
    /\ twCurrent = NULL
    /\ twFilter = 0
    /\ twReturned = <<>>
    /\ twStatus = "none"

\* No attribute node has been constructed.
AttrNodeIdle ==
    /\ ownerElement = [a \in AttrIds |-> NULL]
    /\ attrName = [a \in AttrIds |-> <<>>]
    /\ attrValue = [a \in AttrIds |-> <<>>]
    /\ attributeNodes = [e \in AllNodes |-> <<>>]
    /\ attrCall = AttrCall("new", NULL, NULL, "ok")

\* No listener has been added and cloneNode has not been called.
CloneIdle ==
    /\ eventListeners = [n \in AllNodes |-> <<>>]
    /\ eventSets = [s \in SetIds |-> NoSet]
    /\ cloneSource = NULL
    /\ cloneResult = NULL

DomIdle == QueryIdle /\ WalkIdle /\ AttrNodeIdle /\ CloneIdle

ExtIdle == EntityIdle /\ RoundIdle /\ DomIdle

\* No client holds nodes to mutate.
PoolIdle ==
    /\ pool = {}
    /\ budget = 0
    /\ last = Call("new", NULL, NULL, NULL, FALSE, "ok")

\* After construction: every node is detached and childless; the template
\* holds its own content fragment.  Names, data and attributes play no part
\* in the mutation methods.
InitNodes ==
    /\ nodeType = [n \in AllNodes |->
                     IF n = 1 \/ n = TemplateContent
                     THEN DOCUMENT_FRAGMENT_NODE ELSE ELEMENT_NODE]
    /\ content = [n \in AllNodes |-> IF n = 2 THEN TemplateContent ELSE NULL]
    /\ childNodes = [n \in AllNodes |-> <<>>]
    /\ parentNode = [n \in AllNodes |-> NULL]
    /\ nodeName = [n \in AllNodes |-> <<>>]
    /\ data = [n \in AllNodes |-> <<>>]
    /\ attributeMap = [n \in AllNodes |-> <<>>]
    /\ last = Call("new", NULL, NULL, NULL, FALSE, "ok")

Init ==
    /\ InitNodes
    /\ pool = 1..NumNodes
    /\ budget = MaxCalls
    /\ AttrIdle
    /\ TokIdle
    /\ ParseIdle
    /\ ExtIdle

\* The longer runs: one Element and one call more.
InitDeep ==
    /\ InitNodes
    /\ pool = 1..ExtraElement
    /\ budget = MaxCalls + 1
    /\ AttrIdle
    /\ TokIdle
    /\ ParseIdle
    /\ ExtIdle

Next ==
    \/ \E a \in pool, n \in pool : DoAppendChild(a, n)
    \/ \E a \in pool, n \in pool : DoRemoveChild(a, n)
    \/ \E a \in pool, n \in pool, o \in pool : DoReplaceChild(a, n, o)
    \/ \E a \in pool, n \in pool, r \in pool \cup {NULL} : DoInsertBefore(a, n, r)

Spec == Init /\ [][Next]_vars

SpecDeep == InitDeep /\ [][Next]_vars

\* parseAttributes applied to one text.
InitAttr ==
    /\ NewDocument
    /\ PoolIdle
    /\ TokIdle
    /\ ParseIdle
    /\ paText \in AttrTexts
    /\ paResult = Pending
    /\ ExtIdle

NextAttr == CallParseAttributes

SpecAttr == InitAttr /\ [][NextAttr]_vars

\* expandEntities applied to one text.
InitEntity ==
    /\ NewDocument
    /\ PoolIdle
    /\ AttrIdle
    /\ TokIdle
    /\ ParseIdle
    /\ eeText \in EntityTexts
    /\ eeResult = NotExpanded
    /\ RoundIdle
    /\ DomIdle

NextEntity == CallExpandEntities

SpecEntity == InitEntity /\ [][NextEntity]_vars

\* parse(markup), then toHTML, toXML, parse of the result and toXML again.
InitRound ==
    /\ NewDocument
    /\ PoolIdle
    /\ AttrIdle
    /\ TokIdle
    /\ ParseIdle
    /\ EntityIdle
    /\ markup \in RoundTexts
    /\ serial = <<>>
    /\ html = NotSerialized
    /\ DomIdle

NextRound ==
    \/ ParseMarkup
    \/ ParseContent
    \/ ParseStart
    \/ ParseEnd
    \/ ParseInline
    \/ ParseReturn
    \/ ParseRaise
    \/ CallToHTML
    \/ CallToXML
    \/ ParseSerialized

SpecRound == InitRound /\ [][NextRound]_vars

\* Two generators, created over two texts, consumed in any interleaving.
InitTok ==
    /\ NewDocument
    /\ PoolIdle
    /\ AttrIdle
    /\ ParseIdle
    /\ reLastIndex = 0
    /\ gen \in {<<NewGenerator(t1), NewGenerator(t2)>> :
                  t1 \in TokTexts, t2 \in ParseExamples}
    /\ taken = <<<<>>, <<>>>>
    /\ ExtIdle

NextTok ==
    \/ \E i \in DOMAIN gen : TokNext(i)
    \/ \E i \in DOMAIN gen : TokAbandon(i)

SpecTok == InitTok /\ [][NextTok]_vars

\* Calls of parse, one after the other.
InitParse ==
    /\ NewDocument
    /\ PoolIdle
    /\ AttrIdle
    /\ TokIdle
    /\ ParseIdle
    /\ ExtIdle

NextParse ==
    \/ \E text \in ParseTexts : CallParse(text)
    \/ ParseContent
    \/ ParseStart
    \/ ParseEnd
    \/ ParseInline
    \/ ParseReturn
    \/ ParseRaise

SpecParse == InitParse /\ [][NextParse]_vars

(***************************************************************************)
(* Properties of the mutation methods.                                     *)
(***************************************************************************)
\* seq without its first occurrence of x.
RemoveFirst(seq, x) ==
    IF IndexOf(seq, x) > 0 THEN RemoveAt(seq, IndexOf(seq, x)) ELSE seq

Returned(op) == last.op = op /\ last.result = "ok"

\* C1 as stated: after A.appendChild(N) returns, for nodes of any kind,
\* N.parentNode === A and A.childNodes contains N exactly once.
C1_AppendChildLinksAnyNode ==
    Returned("appendChild") =>
        /\ parentNode[last.node] = last.this
        /\ Count(childNodes[last.this], last.node) = 1

\* C1 amended: for N not a DocumentFragment and A not a TemplateElement, after
\* A.appendChild(N) returns, N.parentNode === A and A.childNodes is its
\* previous value, less the first occurrence of N when N.parentNode was A,
\* followed by N; so it contains N exactly once whenever it held N at most
\* once, as A's own child, before the call.
C1_AppendChildLinksOrdinaryNode ==
    [][(/\ last'.op = "appendChild"
        /\ last'.result = "ok"
        /\ ~IsFragment(last'.node)
        /\ content[last'.this] = NULL)
       => LET a == last'.this
              n == last'.node
              before == IF parentNode[n] = a
                        THEN RemoveFirst(childNodes[a], n)
                        ELSE childNodes[a]
          IN  /\ parentNode'[n] = a
              /\ childNodes'[a] = Append(before, n)
              /\ (Count(childNodes[a], n) = 0
                    \/ (Count(childNodes[a], n) = 1 /\ parentNode[n] = a))
                 => Count(childNodes'[a], n) = 1]_vars

\* C1 witness: an Element has been appended to another node that is not a
\* TemplateElement and is now the second and last of its children.
C1_Witness ==
    /\ Returned("appendChild")
    /\ ~IsFragment(last.node)
    /\ content[last.this] = NULL
    /\ last.this # last.node
    /\ Len(childNodes[last.this]) = 2
    /\ childNodes[last.this][2] = last.node

\* C2 as stated: after A.removeChild(N) returns, whether or not N was a child
\* of A, N.parentNode === null and A.childNodes does not contain N.
C2_RemoveChildUnlinksAnyNode ==
    Returned("removeChild") =>
        /\ parentNode[last.node] = NULL
        /\ last.node \notin Range(childNodes[last.this])

\* C2 amended: when A.childNodes contains N, after A.removeChild(N) returns
\* N.parentNode === null and A.childNodes is its previous value less the first
\* occurrence of N (so N is gone when it occurred once); when A.childNodes
\* does not contain N the call changes nothing, and N keeps its parent.
C2_RemoveChildUnlinksChild ==
    [][last'.op = "removeChild"
       => LET a == last'.this
              n == last'.node
          IN  IF n \in Range(childNodes[a])
              THEN /\ parentNode'[n] = NULL
                   /\ childNodes'[a] = RemoveFirst(childNodes[a], n)
                   /\ Count(childNodes[a], n) = 1 => n \notin Range(childNodes'[a])
                   /\ \A m \in AllNodes :
                         /\ m # a => childNodes'[m] = childNodes[m]
                         /\ m # n => parentNode'[m] = parentNode[m]
              ELSE /\ childNodes' = childNodes
                   /\ parentNode' = parentNode]_vars

\* C2 witness: a child has been removed from its parent.
C2_Witness ==
    /\ Returned("removeChild")
    /\ last.found
    /\ parentNode[last.node] = NULL
    /\ last.node \notin Range(childNodes[last.this])

\* C3: after any sequence of mutation calls every node occurring in some
\* P.childNodes occurs there exactly once, in no other node's childNodes, and
\* has parentNode === P; and every node with parentNode === P occurs in
\* P.childNodes.
C3_TreeConsistent ==
    /\ \A p \in AllNodes : \A n \in Range(childNodes[p]) :
          /\ Count(childNodes[p], n) = 1
          /\ parentNode[n] = p
          /\ \A q \in AllNodes \ {p} : n \notin Range(childNodes[q])
    /\ \A n \in AllNodes :
          parentNode[n] # NULL => n \in Range(childNodes[parentNode[n]])

\* The nodes reachable from n by following childNodes one or more times.
RECURSIVE Below(_, _)
Below(front, k) ==
    LET next == front \cup UNION {Range(childNodes[m]) : m \in front}
    IN  IF k = 0 \/ next = front THEN front ELSE Below(next, k - 1)

Descendants(n) == Below(Range(childNodes[n]), Cardinality(AllNodes))

\* C4: after any sequence of mutation calls no node is reachable from itself
\* by following childNodes.
C4_Acyclic == \A n \in AllNodes : n \notin Descendants(n)

\* C5: P.insertBefore(N, R) with R non-null and not a child of P fails with
\* NotFoundError and changes no childNodes and no parentNode.
C5_InsertBeforeMissingReferenceIsAtomic ==
    [][(/\ last'.op = "insertBefore"
        /\ last'.ref # NULL
        /\ last'.ref \notin Range(childNodes[last'.this]))
       => /\ last'.result = "NotFoundError"
          /\ childNodes' = childNodes
          /\ parentNode' = parentNode]_vars

\* C5 witness: insertBefore of a non-empty DocumentFragment, or of a node that
\* has a parent, has failed with NotFoundError.
C5_Witness ==
    /\ last.op = "insertBefore"
    /\ last.result = "NotFoundError"
    /\ ~last.found
    /\ \/ IsFragment(last.node) /\ childNodes[last.node] # <<>>
       \/ parentNode[last.node] \notin {NULL, last.this}

\* C6, for a parent P that is neither F itself, nor one of F's children, nor
\* a TemplateElement: after P.appendChild(F) or P.insertBefore(F, R) returns
\* for a DocumentFragment F,
\* every former child of F has parentNode === P, F.childNodes is empty and F
\* has not been placed in P.childNodes.
C6_FragmentInsertionEmptiesFragment ==
    [][(/\ last'.op \in {"appendChild", "insertBefore"}
        /\ last'.result = "ok"
        /\ IsFragment(last'.node)
        /\ last'.this # last'.node
        /\ last'.this \notin Range(childNodes[last'.node])
        /\ content[last'.this] = NULL)
       => LET p == last'.this
              f == last'.node
          IN  /\ childNodes'[f] = <<>>
              /\ \A c \in Range(childNodes[f]) : parentNode'[c] = p
              /\ f \in Range(childNodes'[p]) => f \in Range(childNodes[p])]_vars

(***************************************************************************)
(* Properties of the tokenizer, the tree builder and parseAttributes.      *)
(***************************************************************************)
\* How generator i ended and what its consumer took from it.
Consumed(i) == [status |-> gen[i].status, markers |-> taken[i]]

\* C7: the scan cursor is private per invocation: a marker sequence that
\* has ended, consumed in whatever interleaving with another one or after an
\* abandoned one, is exactly the sequence its text yields when consumed alone.
C7_ScanCursorIsPrivate ==
    \A i \in DOMAIN gen :
        gen[i].status \in {"done", "RangeError"} =>
            Consumed(i) = ConsumedAlone(gen[i].text)

\* The stack has the Document at the bottom, so at least one entry, and
\* current is its top.
StackShape ==
    pStatus # "idle" =>
        /\ Len(stack) >= 1
        /\ nodeType[stack[1]] = DOCUMENT_NODE
        /\ current = stack[Len(stack)]

\* One turn of the loop of parse: what the marker handled does to the stack.
StackStep ==
    (pStatus = "running" /\ pStatus' = "running") =>
        /\ (marker'.type = "Start" /\ ~IsDeclaration(marker'.name)) =>
               /\ Len(stack') = Len(stack) + 1
               /\ SubSeq(stack', 1, Len(stack)) = stack
               /\ nodeType[stack'[Len(stack')]] = NULL
               /\ nodeType'[stack'[Len(stack')]] = ELEMENT_NODE
        /\ (marker'.type = "End" /\ Len(stack) > 1) =>
               stack' = SubSeq(stack, 1, Len(stack) - 1)
        /\ (marker'.type = "End" /\ Len(stack) = 1) => stack' = stack
        /\ marker'.type \in {"Content", "Inline"} => stack' = stack

\* parse("<a><b></a>"), and the same shape with recognised names, do not
\* raise.
UnbalancedDoesNotRaise ==
    (gen # <<>> /\ gen[1].text \in {UnbalancedExample, UnbalancedTags}) =>
        pStatus # "RangeError"

C9_ParseAttributesNeverRaises == paResult.status # "RangeError"

\* A name or an unquoted value: no separator and no quote.
IsToken(x) ==
    /\ x # <<>>
    /\ \A k \in 1..Len(x) : x[k] \notin AttrSep \cup {"\"", "'"}

Returns(mapping) == paResult = Outcome("ok", mapping)

\* What the statement requires of a text that holds one attribute.
OneAttributeMapping ==
    LET eq == IndexOfChar(paText, "=", 0)
        name == Substring(paText, 0, eq)
        rest == SubstringFrom(paText, eq + 1)
        body == Substring(rest, 1, Len(rest) - 1)
    IN  /\ IsToken(paText) => Returns(<<NullEntry(paText)>>)
        /\ (eq # -1 /\ IsToken(name)) =>
              /\ rest = <<>> => Returns(<<ValueEntry(name, <<>>)>>)
              /\ IsToken(rest) => Returns(<<ValueEntry(name, rest)>>)
              /\ (/\ Len(rest) >= 2
                  /\ rest[1] \in {"\"", "'"}
                  /\ rest[Len(rest)] = rest[1]
                  /\ \A k \in 1..Len(body) : body[k] # rest[1]) =>
                     Returns(<<ValueEntry(name, body)>>)

\* {a:"1", b:null, c:"x y", d:""}
AttrExampleMapping ==
    <<ValueEntry(<<"a">>, <<"1">>), NullEntry(<<"b">>),
      ValueEntry(<<"c">>, <<"x", " ", "y">>), ValueEntry(<<"d">>, <<>>)>>

\* C10: parseAttributes returns a mapping in order of appearance in which a
\* token with no '=' maps to null, name="v" or name='v' maps to v without the
\* quotes, an unquoted name=v maps to v, and a trailing name= maps to the empty
\* string; parseAttributes('a="1" b c="x y" d=') is {a:"1", b:null, c:"x y",
\* d:""}.
C10_AttributeMapping ==
    paResult # Pending =>
        /\ OneAttributeMapping
        /\ paText = AttrExample => Returns(AttrExampleMapping)

(***************************************************************************)
(* Properties of expandEntities.                                           *)
(***************************************************************************)
\* What the statement requires a reference to become: one of the five named
\* references (in either case) its character, a decimal reference within
\* [0, 0x10FFFF] the character of that code point, any other one itself.
RequiredValue(text, match) ==
    LET name == [k \in 1..Len(match.body) |-> ToLowerCase(match.body[k])]
    IN  IF match.named /\ name = <<"a", "m", "p">> THEN <<"&">>
        ELSE IF match.named /\ name = <<"l", "t">> THEN <<"<">>
        ELSE IF match.named /\ name = <<"g", "t">> THEN <<">">>
        ELSE IF match.named /\ name = <<"q", "u", "o", "t">> THEN <<"\"">>
        ELSE IF match.named /\ name = <<"a", "p", "o", "s">> THEN <<"'">>
        ELSE IF ~match.named /\ NumberOf(match.body) <= 1114111
        THEN <<FromCodePoint(NumberOf(match.body))>>
        ELSE Substring(text, match.index, match.end)

\* The text from offset o on with every reference replaced by its required
\* value and everything else copied.
RECURSIVE RequiredFrom(_, _)
RequiredFrom(text, o) ==
    Bind(EntityExec(text, o), LAMBDA match :
        IF match.found
        THEN Substring(text, o, match.index) \o RequiredValue(text, match)
                 \o RequiredFrom(text, match.end)
        ELSE SubstringFrom(text, o))

\* C11: entity expansion replaces the five named references amp, lt, gt,
\* quot, apos by & < > " ', every decimal reference &#N; with N within
\* [0, 0x10FFFF] by the character with code point N, leaves every other
\* reference verbatim and copies all other text unchanged and in order.
C11_EntityExpansion ==
    eeResult # NotExpanded => eeResult = RequiredFrom(eeText, 0)

(***************************************************************************)
(* Properties of serialization.                                            *)
(***************************************************************************)
\* Well-formed markup: "<d/>", "<d></d>", "<d><w>x</w></d>", "<d w='x'/>"
\* and "<d>&lt;</d>".
WellFormedTexts ==
    {<<"<", "d", "/", ">">>, EmptyTag, NestedTags, InlineTag, EntityInTag}

\* C12: serializing is a fixed point of parse-then-serialize: for every
\* well-formed markup M, toXML(parse(toXML(parse(M)))) equals toXML(parse(M)),
\* toXML being called with its default options.
C12_SerializeIsFixedPoint ==
    (markup \in WellFormedTexts /\ Len(serial) = 2) => serial[2] = serial[1]

\* <img src="x.png" />
ImgSelfClosed ==
    <<"<", "i", "m", "g", " ", "s", "r", "c", "=", "\"", "x", ".", "p", "n",
      "g", "\"", " ", "/", ">">>

\* C13: parsing "<img src='x.png'/>" and calling toHTML() on the result emits
\* the element as the single self-closing tag <img src="x.png" />, with the
\* one attribute src and no closing tag (after the declaration of the
\* document, if the serializer writes one).
C13_VoidElementSelfCloses ==
    (markup = ImgExample /\ html # NotSerialized) =>
        html \in {ImgSelfClosed, XML_DECLARATION \o ImgSelfClosed}

(***************************************************************************)
(* Queries over a document.                                                *)
(***************************************************************************)
InitQuery ==
    /\ \E name2 \in QueryNames, name3 \in QueryNames,
          attributes2 \in QueryAttributes, attributes3 \in QueryAttributes,
          nested \in BOOLEAN :
            QueryDocument(name2, attributes2, name3, attributes3, nested)
    /\ PoolIdle
    /\ AttrIdle
    /\ TokIdle
    /\ ParseIdle
    /\ ExtIdle

NextQuery ==
    \E this \in {1, 2}, query \in Queries : CallQuerySelectorAll(this, query)

SpecQuery == InitQuery /\ [][NextQuery]_vars

\* C14: on the document <div class="a b"><span id="x"/></div>,
\* querySelector("#x") returns the span, querySelectorAll(".a") returns the
\* div and querySelectorAll("div span") returns the span.
C14_QuerySelects ==
    (QueryExample /\ qThis = 1 /\ qResult # NotQueried) =>
        /\ qText = ById => QuerySelector(qThis, qText) = 3
        /\ qText = ByClass => qResult = <<2>>
        /\ qText = ByDescendant => qResult = <<3>>

(***************************************************************************)
(* Properties of the marker sequence.                                      *)
(***************************************************************************)
\* The fragments of markers lie in a text of length n and each starts where
\* the one before it ended, the first at 0.
Contiguous(markers, n) ==
    /\ \A k \in 1..Len(markers) :
          /\ 0 <= markers[k].fragment.start
          /\ markers[k].fragment.start <= markers[k].fragment.end
          /\ markers[k].fragment.end <= n
    /\ markers # <<>> => markers[1].fragment.start = 0
    /\ \A k \in 2..Len(markers) :
          markers[k].fragment.start = markers[k - 1].fragment.end

\* The markers are contiguous and reach the end of the text.
Tiles(markers, n) ==
    /\ Contiguous(markers, n)
    /\ IF markers = <<>> THEN n = 0 ELSE markers[Len(markers)].fragment.end = n

\* C16: the fragments of the markers a text yields tile the text: the first
\* starts at 0, each starts where the one before it ended, every one lies
\* within the text with start <= end, and when the sequence has ended the
\* last one ends at the length of the text.
C16_FragmentsTile ==
    \A i \in DOMAIN gen :
        /\ Contiguous(taken[i], Len(gen[i].text))
        /\ gen[i].status \in {"done", "RangeError"} =>
              Tiles(taken[i], Len(gen[i].text))

\* A text that is one tag, with the kind and the qualified name of the tag.
TagCase(text, type, name) == [text |-> text, type |-> type, name |-> name]

\* <div>, </span>, <img/>, <x>, </x>, <x/>, <d>, </d>, <d/>, <dx>
TagCases ==
    {TagCase(DivTag, "Start", DIV),
     TagCase(SpanEndTag, "End", SPAN),
     TagCase(ImgTag, "Inline", <<"i", "m", "g">>),
     TagCase(<<"<", "x", ">">>, "Start", <<"x">>),
     TagCase(<<"<", "/", "x", ">">>, "End", <<"x">>),
     TagCase(<<"<", "x", "/", ">">>, "Inline", <<"x">>),
     TagCase(<<"<", "d", ">">>, "Start", <<"d">>),
     TagCase(<<"<", "/", "d", ">">>, "End", <<"d">>),
     TagCase(<<"<", "d", "/", ">">>, "Inline", <<"d">>),
     TagCase(<<"<", "d", "x", ">">>, "Start", <<"d", "x">>)}

\* C17: a text that is one tag <name>, </name> or <name/>, the name made of
\* letters, digits, '_' or '-', is tokenized as one marker that spans the
\* text and carries the name; the marker is End with a leading '/', else
\* Inline when the tag ends with "/>", else Start, and never Content.
C17_TagIsOneMarker ==
    \A c \in TagCases :
        (markup = c.text /\ pStatus = "returned" /\ gen[1].text = markup) =>
            /\ marker.type = c.type
            /\ marker.name = c.name
            /\ marker.fragment = Fragment(0, Len(c.text))

(***************************************************************************)
(* A TreeWalker over a tree.                                               *)
(***************************************************************************)
InitWalk ==
    /\ \E p \in WalkShapes : \E t \in WalkTypes(p) : WalkTree(p, t)
    /\ PoolIdle
    /\ AttrIdle
    /\ TokIdle
    /\ ParseIdle
    /\ EntityIdle
    /\ RoundIdle
    /\ QueryIdle
    /\ AttrNodeIdle
    /\ CloneIdle
    /\ twRoot \in {1, 2}
    /\ twCurrent = twRoot
    /\ twFilter \in WalkFilters
    /\ twReturned = <<>>
    /\ twStatus = "ready"

NextWalk == CallNextNode

SpecWalk == InitWalk /\ [][NextWalk]_vars

\* The nodes of root's subtree other than root that pass the filter, in
\* depth-first pre-order.
WalkOrder ==
    SelectSeq(Tail(IterWalk(twRoot)), LAMBDA n : AcceptNode(n, twFilter))

\* C18: the calls of nextNode return the nodes of root's subtree other than
\* root that pass the filter, in depth-first pre-order and each once, and
\* null from then on; every call returns, and no node outside the subtree
\* of root is returned.
C18_WalkerPreOrder ==
    twRoot # NULL =>
        /\ twStatus = "ready"
        /\ \A k \in 1..Len(twReturned) :
              twReturned[k] = IF k <= Len(WalkOrder) THEN WalkOrder[k] ELSE NULL

(***************************************************************************)
(* Two elements and the attribute nodes a client moves between them.       *)
(***************************************************************************)
InitAttrNode ==
    /\ nodeType = [n \in AllNodes |-> IF n \in AttrElements THEN ELEMENT_NODE ELSE NULL]
    /\ content = [n \in AllNodes |-> NULL]
    /\ childNodes = [n \in AllNodes |-> <<>>]
    /\ parentNode = [n \in AllNodes |-> NULL]
    /\ nodeName = [n \in AllNodes |-> IF n \in AttrElements THEN DIV ELSE <<>>]
    /\ data = [n \in AllNodes |-> <<>>]
    /\ attributeMap = [n \in AllNodes |-> <<>>]
    /\ pool = {}
    /\ budget = MaxAttrCalls
    /\ last = Call("new", NULL, NULL, NULL, FALSE, "ok")
    /\ AttrIdle
    /\ TokIdle
    /\ ParseIdle
    /\ ExtIdle

NextAttrNode ==
    \/ \E name \in AttrNames : DoNewAttributeNode(name)
    \/ \E this \in AttrElements, name \in AttrNames, value \in AttrValues :
          DoSetAttribute(this, name, value)
    \/ \E this \in AttrElements, node \in AttrIds : DoSetAttributeNode(this, node)
    \/ \E this \in AttrElements, node \in AttrIds : DoAddAttributeNode(this, node)
    \/ \E this \in AttrElements, name \in AttrNames : DoRemoveAttribute(this, name)
    \/ \E this \in AttrElements, node \in AttrIds : DoRemoveAttributeNode(this, node)
    \/ \E node \in AttrIds, value \in AttrValues : DoSetValue(node, value)

SpecAttrNode == InitAttrNode /\ [][NextAttrNode]_vars

\* C15: setAttributeNode, addAttributeNode and removeAttributeNode, called
\* with an attribute node that belongs to another element, fail with a named
\* error and change nothing: the node keeps its ownerElement and the maps of
\* both elements are as they were.
C15_ForeignNodeRejected ==
    [][(/\ attrCall'.op \in {"setAttributeNode", "addAttributeNode",
                             "removeAttributeNode"}
        /\ ownerElement[attrCall'.node] # NULL
        /\ ownerElement[attrCall'.node] # attrCall'.this)
       => /\ attrCall'.err \in {"NotFoundError", "InUseAttributeError"}
          /\ UNCHANGED <<ownerElement, attributeNodes>>]_vars

\* C20: an attribute node and its owner agree: the owner's map gives, under
\* the node's name, the node itself, getAttribute of that name is the
\* node's value, and every node in an element's map has that element as
\* its ownerElement.
C20_OwnerAndMapAgree ==
    /\ \A a \in Constructed :
          ownerElement[a] # NULL =>
              /\ MapGet(attributeNodes[ownerElement[a]], attrName[a]) = a
              /\ AttributeValue(AttributeHeap, ownerElement[a], attrName[a])
                     = NodeValue(AttributeHeap, a)
    /\ \A e \in AttrElements :
          \A i \in 1..Len(attributeNodes[e]) :
              ownerElement[attributeNodes[e][i].node] = e

(***************************************************************************)
(* cloneNode(true) on a tree, and calls on either tree afterwards.         *)
(***************************************************************************)
InitClone ==
    /\ \E shape \in CloneShapes, leaf \in CloneLeaves,
          attributes \in AttributeSetups, listening \in ListenerSetups :
          \E w \in {WithListeners(WithAttributes(ConstructedTree(shape, leaf),
                                                 attributes, 1),
                                  listening, 1)} :
             /\ shape = "pair" => leaf = ELEMENT_NODE
             /\ nodeType = w.t
             /\ nodeName = w.nm
             /\ data = w.d
             /\ childNodes = w.c
             /\ parentNode = w.p
             /\ ownerElement = w.o
             /\ attrName = w.n
             /\ attrValue = w.v
             /\ attributeNodes = w.m
             /\ eventListeners = w.ls
             /\ eventSets = w.es
    /\ content = [k \in CloneNodes |-> NULL]
    /\ attributeMap = [k \in CloneNodes |-> <<>>]
    /\ attrCall = AttrCall("new", NULL, NULL, "ok")
    /\ cloneSource = NULL
    /\ cloneResult = NULL
    /\ pool = {}
    /\ budget = MaxCloneCalls
    /\ last = Call("new", NULL, NULL, NULL, FALSE, "ok")
    /\ AttrIdle
    /\ TokIdle
    /\ ParseIdle
    /\ EntityIdle
    /\ RoundIdle
    /\ QueryIdle
    /\ WalkIdle

NextClone ==
    \/ \E this \in CloneNodes : CallCloneNode(this)
    \/ \E this \in CloneNodes, name \in AttrNames, value \in AttrValues :
          AfterSetAttribute(this, name, value)
    \/ \E this \in CloneNodes, name \in AttrNames : AfterRemoveAttribute(this, name)
    \/ \E node \in AttrIds, value \in AttrValues : AfterSetValue(node, value)
    \/ \E this \in CloneNodes, type \in EventTypes, listener \in Listeners :
          AfterAddEventListener(this, type, listener)
    \/ \E this \in CloneNodes, type \in EventTypes, listener \in Listeners :
          AfterRemoveEventListener(this, type, listener)

SpecClone == InitClone /\ [][NextClone]_vars

\* The nodes of the tree under k.
RECURSIVE Subtree(_, _)
Subtree(w, k) ==
    {k} \cup UNION {Subtree(w, w.c[k][i]) : i \in 1..Len(w.c[k])}

\* The attribute nodes in the maps of a set of nodes, and the Set objects in
\* their listener maps.
AttributeNodesOf(w, nodes) ==
    UNION {{w.m[k][i].node : i \in 1..Len(w.m[k])} : k \in nodes}
ListenerSetsOf(w, nodes) ==
    UNION {{w.ls[k][i].set : i \in 1..Len(w.ls[k])} : k \in nodes}

\* What a client sees of the tree under k: the fields of every node, its
\* attribute names with the values getAttribute gives, and its children in
\* order.
RECURSIVE TreeView(_, _)
TreeView(w, k) ==
    [nodeName |-> w.nm[k], nodeType |-> w.t[k], data |-> w.d[k],
     attributes |-> [i \in 1..Len(w.m[k]) |->
                       <<w.m[k][i].name, AttributeValue(w, k, w.m[k][i].name)>>],
     childNodes |-> [i \in 1..Len(w.c[k]) |-> TreeView(w, w.c[k][i])]]

\* The listeners registered on every node of the tree under k, by type.
RECURSIVE ListenerView(_, _)
ListenerView(w, k) ==
    [listeners |-> [i \in 1..Len(w.ls[k]) |->
                      <<w.ls[k][i].type, w.es[w.ls[k][i].set].members>>],
     childNodes |-> [i \in 1..Len(w.c[k]) |-> ListenerView(w, w.c[k][i])]]

\* The clone and the tree it was made from have no node, attribute node or
\* Set object in common; the clone has no parent and every node under it has
\* its cloned parent as parentNode.
CloneIsApart ==
    cloneResult # NULL =>
        LET w == CloneHeap
            from == Subtree(w, cloneSource)
            made == Subtree(w, cloneResult)
        IN  /\ from \cap made = {}
            /\ AttributeNodesOf(w, from) \cap AttributeNodesOf(w, made) = {}
            /\ ListenerSetsOf(w, from) \cap ListenerSetsOf(w, made) = {}
            /\ parentNode[cloneResult] = NULL
            /\ \A k \in made : \A i \in 1..Len(childNodes[k]) :
                  parentNode[childNodes[k][i]] = k

\* As cloneNode returns, the clone shows what the tree it was made from shows.
CloneIsAlike ==
    (cloneResult # NULL /\ attrCall.op = "cloneNode") =>
        TreeView(CloneHeap, cloneResult) = TreeView(CloneHeap, cloneSource)

\* The step of cloneNode makes the clone of nodes, attribute nodes and Set
\* objects that did not exist, and changes nothing that did.
CloneIsFresh ==
    (cloneResult = NULL /\ cloneResult' # NULL) =>
        /\ \A k \in Subtree(CloneHeap', cloneResult') : nodeType[k] = NULL
        /\ \A a \in AttributeNodesOf(CloneHeap', Subtree(CloneHeap', cloneResult')) :
              attrName[a] = <<>>
        /\ \A s \in ListenerSetsOf(CloneHeap', Subtree(CloneHeap', cloneResult')) :
              ~eventSets[s].used
        /\ \A k \in CloneNodes :
              nodeType[k] # NULL =>
                  /\ nodeType'[k] = nodeType[k]
                  /\ nodeName'[k] = nodeName[k]
                  /\ data'[k] = data[k]
                  /\ childNodes'[k] = childNodes[k]
                  /\ parentNode'[k] = parentNode[k]
                  /\ attributeNodes'[k] = attributeNodes[k]
                  /\ eventListeners'[k] = eventListeners[k]
        /\ \A a \in AttrIds :
              attrName[a] # <<>> =>
                  /\ attrName'[a] = attrName[a]
                  /\ attrValue'[a] = attrValue[a]
                  /\ ownerElement'[a] = ownerElement[a]
        /\ \A s \in SetIds : eventSets[s].used => eventSets'[s] = eventSets[s]

\* A later call on a node of one of the two trees leaves what the other
\* tree shows, attributes and listeners, as it was.
CloneIsIndependent ==
    (cloneResult # NULL /\ attrCall'.this # NULL) =>
        /\ attrCall'.this \in Subtree(CloneHeap, cloneResult) =>
              /\ TreeView(CloneHeap', cloneSource) = TreeView(CloneHeap, cloneSource)
              /\ ListenerView(CloneHeap', cloneSource) = ListenerView(CloneHeap, cloneSource)
        /\ attrCall'.this \in Subtree(CloneHeap, cloneSource) =>
              /\ TreeView(CloneHeap', cloneResult) = TreeView(CloneHeap, cloneResult)
              /\ ListenerView(CloneHeap', cloneResult) = ListenerView(CloneHeap, cloneResult)

\* C19: n.cloneNode(true) returns a tree of nodes, attribute nodes and
\* listener sets that did not exist before and that n's tree does not share;
\* the clone has no parent and shows the nodeName, nodeType, data, attribute
\* names and values and child order of n at every level, every cloned child
\* has its cloned parent as parentNode, n's tree is as it was, and a later
\* setAttribute, removeAttribute, value assignment, addEventListener or
\* removeEventListener on one of the two trees does not show on the other.
C19_CloneIsIndependentCopy ==
    /\ [](CloneIsApart /\ CloneIsAlike)
    /\ [][CloneIsFresh /\ CloneIsIndependent]_vars

\* C19: a div with a child, an attribute and a listener has been cloned, and
\* a listener was then added to the clone.
C19_Witness ==
    /\ cloneResult # NULL
    /\ cloneSource = 1
    /\ attributeNodes[1] # <<>>
    /\ eventListeners[1] # <<>>
    /\ attrCall.op = "addEventListener"
    /\ attrCall.this = cloneResult

(***************************************************************************)
(* Properties of self-closing tags.                                        *)
(***************************************************************************)
\* The text of the tag of an Inline marker strictly between its name and its
\* closing "/>".
BetweenNameAndClosing(text, m) ==
    Substring(text, m.fragment.start + 1 + Len(m.name), m.fragment.end - 2)

\* The element the builder made for the marker it handled last.
CreatedElement == childNodes[current][Len(childNodes[current])]

\* C21: the closing '/' of a self-closing tag is never parsed as an
\* attribute: the attributes of an Inline marker are parseAttributes of the
\* text strictly between the name and the closing "/>", and the element
\* created for it has no attribute named "/".
C21_ClosingSlashIsNoAttribute ==
    (pStatus \in {"running", "returned"} /\ marker.type = "Inline") =>
        /\ marker.attributes =
              ParseAttributes(BetweenNameAndClosing(gen[1].text, marker), <<>>).attributes
        /\ \A i \in 1..Len(attributeMap[CreatedElement]) :
              attributeMap[CreatedElement][i].name # <<"/">>

(***************************************************************************)
(* Properties of comments, CDATA sections and DOCTYPE declarations.        *)
(***************************************************************************)
\* m is the Start or the End marker of a comment, a CDATA section or a
\* DOCTYPE declaration.
OpensConstruct(m) == m.type = "Start" /\ IsDeclaration(m.name)
ClosesConstruct(m) == m.type = "End" /\ IsDeclaration(m.name)

\* The turn of the loop of parse handles one of the three markers of such a
\* construct.
HandlesConstruct ==
    /\ pStatus = "running"
    /\ pStatus' = "running"
    /\ \/ OpensConstruct(marker')
       \/ OpensConstruct(marker) /\ marker'.type = "Content"
       \/ ClosesConstruct(marker')

\* C22: a comment, a CDATA section or a DOCTYPE declaration inside an open
\* element does not close the element: the builder handles its Start,
\* Content and End markers with the stack of open containers and current
\* left as they were, so what follows is appended where what precedes was.
C22_ConstructKeepsElementOpen ==
    [][(HandlesConstruct /\ Len(stack) > 1) => UNCHANGED <<stack, current>>]_vars

(***************************************************************************)
(* Properties of the position insertBefore gives the new node.             *)
(***************************************************************************)
\* The children other than n, in their order.
Others(children, n) == SelectSeq(children, LAMBDA child : child # n)

\* n is the child immediately before r.
ImmediatelyBefore(children, n, r) ==
    \E i \in 1..(Len(children) - 1) : children[i] = n /\ children[i + 1] = r

\* C23: after P.insertBefore(N, R) succeeds with R a child of P and N not a
\* DocumentFragment, N is the child immediately before R in P.childNodes and
\* the other children of P are in the order they were in, also when N was a
\* child of P before R already.
C23_InsertedImmediatelyBeforeReference ==
    [][(/\ last'.op = "insertBefore"
        /\ last'.result = "ok"
        /\ last'.ref # NULL
        /\ last'.ref \in Range(childNodes[last'.this])
        /\ last'.node # last'.ref
        /\ ~IsFragment(last'.node))
       => /\ ImmediatelyBefore(childNodes'[last'.this], last'.node, last'.ref)
          /\ Others(childNodes'[last'.this], last'.node)
                = Others(childNodes[last'.this], last'.node)]_vars

====
